---- MODULE Spec2Model ----
(***************************************************************************)
(* Registry and link-management engine of ccm (packages/core).             *)
(*                                                                         *)
(* Strings are sequences of one-character strings, so that concatenation,  *)
(* lower-casing, extname and basename are computed character by character  *)
(* as the code computes them.  A path is a sequence of segments relative   *)
(* to the home directory; join is concatenation of segment sequences.      *)
(* The filesystem is a function from the paths that exist to their entry   *)
(* (directory, regular file with content, or symlink with target).         *)
(***************************************************************************)
EXTENDS Integers, Sequences, FiniteSets, TLC

VARIABLES repositories, selections, stagedMcp, fs, invocations

vars == <<repositories, selections, stagedMcp, fs, invocations>>

(***************************************************************************)
(* Bounds of the model.                                                    *)
(***************************************************************************)
MaxRepos == 2
MaxSelections == 2
MaxStaged == 2

(***************************************************************************)
(* String literals, as character sequences.                                *)
(***************************************************************************)
Str ==
  [dotClaude |-> <<".", "c", "l", "a", "u", "d", "e">>,
   dotLocal |-> <<".", "l", "o", "c", "a", "l">>,
   share |-> <<"s", "h", "a", "r", "e">>,
   ccm |-> <<"c", "c", "m">>,
   repos |-> <<"r", "e", "p", "o", "s">>,
   agents |-> <<"a", "g", "e", "n", "t", "s">>,
   skills |-> <<"s", "k", "i", "l", "l", "s">>,
   commands |-> <<"c", "o", "m", "m", "a", "n", "d", "s">>,
   mcpJson |-> <<"m", "c", "p", ".", "j", "s", "o", "n">>,
   skillMd |-> <<"S", "K", "I", "L", "L", ".", "m", "d">>,
   cMd |-> <<"c", ".", "m", "d">>,
   dMd |-> <<"d", ".", "m", "d">>,
   lib |-> <<"l", "i", "b">>,
   c |-> <<"c">>,
   d |-> <<"d">>,
   k |-> <<"k">>,
   mcp |-> <<"m", "c", "p">>,
   o |-> <<"o">>,
   r |-> <<"r">>,
   q |-> <<"q">>,
   s |-> <<"s">>,
   t |-> <<"t">>,
   new |-> <<"n", "e", "w">>,
   notesMd |-> <<"n", "o", "t", "e", "s", ".", "m", "d">>,
   upperO |-> <<"O">>,
   rDotQ2 |-> <<"r", ".", "q", "2">>,
   rDotQ |-> <<"r", ".", "q">>,
   dotGit |-> <<".", "g", "i", "t">>,
   githubCom |-> <<"g", "i", "t", "h", "u", "b", ".", "c", "o", "m">>,
   r2 |-> <<"r", "2">>,
   oDotR |-> <<"o", ".", "r">>,
   refreshed |-> <<"t", "1">>,
   dotConfig |-> <<".", "c", "o", "n", "f", "i", "g">>,
   configJson |-> <<"c", "o", "n", "f", "i", "g", ".", "j", "s", "o", "n">>,
   nodeModules |-> <<"n", "o", "d", "e", "_", "m", "o", "d", "u", "l", "e", "s">>,
   dotMd |-> <<".", "m", "d">>,
   dotJson |-> <<".", "j", "s", "o", "n">>,
   dotMcpJson |-> <<".", "m", "c", "p", ".", "j", "s", "o", "n">>,
   config |-> <<"c", "o", "n", "f", "i", "g">>,
   tools |-> <<"t", "o", "o", "l", "s">>,
   model |-> <<"m", "o", "d", "e", "l">>,
   aMd |-> <<"a", ".", "m", "d">>,
   a |-> <<"a">>,
   x |-> <<"x">>,
   readmeMd |-> <<"R", "E", "A", "D", "M", "E", ".", "m", "d">>,
   allowedTools |-> <<"a", "l", "l", "o", "w", "e", "d", "-", "t", "o", "o", "l", "s">>,
   description |-> <<"d", "e", "s", "c", "r", "i", "p", "t", "i", "o", "n">>]

(***************************************************************************)
(* String helpers.                                                         *)
(***************************************************************************)
UpperToLower ==
  LET upper == <<"A", "B", "C", "D", "E", "F", "G", "H", "I", "J", "K", "L", "M",
                 "N", "O", "P", "Q", "R", "S", "T", "U", "V", "W", "X", "Y", "Z">>
      lower == <<"a", "b", "c", "d", "e", "f", "g", "h", "i", "j", "k", "l", "m",
                 "n", "o", "p", "q", "r", "s", "t", "u", "v", "w", "x", "y", "z">>
  IN [ch \in {upper[i] : i \in 1..26} |-> lower[CHOOSE i \in 1..26 : upper[i] = ch]]

toLowerCase(s) ==
  [i \in 1..Len(s) |-> IF s[i] \in DOMAIN UpperToLower THEN UpperToLower[s[i]] ELSE s[i]]

Digit == [n \in 0..9 |-> CASE n = 0 -> "0" [] n = 1 -> "1" [] n = 2 -> "2" [] n = 3 -> "3"
                           [] n = 4 -> "4" [] n = 5 -> "5" [] n = 6 -> "6" [] n = 7 -> "7"
                           [] n = 8 -> "8" [] n = 9 -> "9"]

RECURSIVE numberToString(_)
numberToString(n) ==
  IF n < 10 THEN <<Digit[n]>> ELSE numberToString(n \div 10) \o <<Digit[n % 10]>>

LastDot(s) ==
  LET dots == {i \in 1..Len(s) : s[i] = "."}
  IN IF dots = {} THEN 0 ELSE CHOOSE i \in dots : \A j \in dots : j <= i

(* path.extname of a single segment *)
extname(s) ==
  IF LastDot(s) <= 1 THEN <<>> ELSE SubSeq(s, LastDot(s), Len(s))

EndsWith(s, suffix) ==
  /\ Len(suffix) <= Len(s)
  /\ SubSeq(s, Len(s) - Len(suffix) + 1, Len(s)) = suffix

(***************************************************************************)
(* Path helpers (node:path on segment sequences).                          *)
(***************************************************************************)
join(a, b) == a \o b

dirname(p) == SubSeq(p, 1, Len(p) - 1)

(* path.basename(p, ext): last segment, with ext stripped when it is a    *)
(* proper suffix                                                           *)
basename(p, ext) ==
  LET last == p[Len(p)]
  IN IF ext # <<>> /\ EndsWith(last, ext) /\ last # ext
       THEN SubSeq(last, 1, Len(last) - Len(ext))
       ELSE last

IsPrefix(d, p) == Len(d) <= Len(p) /\ SubSeq(p, 1, Len(d)) = d

(***************************************************************************)
(* paths.ts                                                                *)
(***************************************************************************)
getReposDir == join(<<Str.dotLocal, Str.share, Str.ccm>>, <<Str.repos>>)
getClaudeDir == <<Str.dotClaude>>
getAgentsDir == join(getClaudeDir, <<Str.agents>>)
getSkillsDir == join(getClaudeDir, <<Str.skills>>)
getCommandsDir == join(getClaudeDir, <<Str.commands>>)
getMcpConfigPath == join(getClaudeDir, <<Str.mcpJson>>)

(***************************************************************************)
(* alias.ts                                                                *)
(***************************************************************************)
(* mutant: the separator between alias and asset name is left out *)
getNamespacedFilename_NoSeparator(alias, assetName) == alias \o assetName

getNamespacedFilename(alias, assetName) == alias \o <<"-">> \o assetName

(***************************************************************************)
(* Filesystem (node:fs as used by the core).                               *)
(***************************************************************************)

(* An entry: its kind, the target of a symlink, and of the content of a   *)
(* file what the code reads: whether it parses as JSON, the top-level keys *)
(* of the JSON object, the map under its key mcpServers, and the text of   *)
(* the YAML frontmatter of a markdown file.                                 *)
DirEntry ==
  [kind |-> "dir", target |-> <<>>, parses |-> FALSE, servers |-> {},
   keys |-> {}, frontmatter |-> <<>>]
FileEntry ==
  [kind |-> "file", target |-> <<>>, parses |-> FALSE, servers |-> {},
   keys |-> {}, frontmatter |-> <<>>]
JsonEntry(servers) ==
  [kind |-> "file", target |-> <<>>, parses |-> TRUE, servers |-> servers,
   keys |-> {"mcpServers"}, frontmatter |-> <<>>]

RECURSIVE existsFollow(_, _, _)
existsFollow(f, p, fuel) ==
  /\ p \in DOMAIN f
  /\ f[p].kind = "symlink" => (fuel > 0 /\ existsFollow(f, f[p].target, fuel - 1))

(* fs.existsSync: follows symlinks, so a dangling symlink does not exist *)
existsSync(f, p) == existsFollow(f, p, Cardinality(DOMAIN f))

(* mutant: statSync instead of lstatSync resolves the link, so a link   *)
(* that resolves is never reported as a symbolic link                      *)
isSymbolicLink_Stat(f, p) ==
  p \in DOMAIN f /\ f[p].kind = "symlink" /\ ~existsSync(f, p)

(* fs.lstatSync(p).isSymbolicLink() *)
isSymbolicLink(f, p) == p \in DOMAIN f /\ f[p].kind = "symlink"


(* fs.mkdir(dir, {recursive: true}) *)
mkdir(f, d) ==
  [p \in DOMAIN f \cup {SubSeq(d, 1, k) : k \in 1..Len(d)} |-> IF p \in DOMAIN f THEN f[p] ELSE DirEntry]

ensureDir(f, d) == IF existsSync(f, d) THEN f ELSE mkdir(f, d)

(* fs.unlink succeeds on a symlink or a regular file, fails on a directory *)
canUnlink(f, p) == p \in DOMAIN f /\ f[p].kind # "dir"

unlink(f, p) == [q \in DOMAIN f \ {p} |-> f[q]]

(* fs.symlink fails with EEXIST when anything, even a dangling symlink,   *)
(* is at the path                                                          *)
canSymlink(f, p) == p \notin DOMAIN f /\ dirname(p) \in DOMAIN f

symlink(f, target, p) ==
  [q \in DOMAIN f \cup {p} |->
     IF q = p
       THEN [kind |-> "symlink", target |-> target, parses |-> FALSE, servers |-> {},
             keys |-> {}, frontmatter |-> <<>>]
       ELSE f[q]]

(* fs.rm(dir, {recursive: true}): the entry and everything below it *)
rm(f, d) == [q \in {q \in DOMAIN f : ~IsPrefix(d, q)} |-> f[q]]

(* mutant: an existing file keeps its servers, the new ones are added *)
writeFile_MergeServers(f, p, entry) ==
  [q \in DOMAIN f \cup {p} |->
     IF q # p THEN f[q]
     ELSE IF p \in DOMAIN f THEN [entry EXCEPT !.servers = @ \cup f[p].servers]
     ELSE entry]

writeFile(f, p, entry) ==
  [q \in DOMAIN f \cup {p} |-> IF q = p THEN entry ELSE f[q]]

(***************************************************************************)
(* Sequence helpers.                                                       *)
(***************************************************************************)
Range(s) == {s[i] : i \in 1..Len(s)}

IndexWhere(s, P(_)) ==
  LET hits == {i \in 1..Len(s) : P(s[i])}
  IN IF hits = {} THEN 0 ELSE CHOOSE i \in hits : \A j \in hits : i <= j

RemoveAt(s, i) == SubSeq(s, 1, i - 1) \o SubSeq(s, i + 1, Len(s))

(***************************************************************************)
(* config.ts: the registry store.  Every operation loads the whole        *)
(* document and saves the whole document; the three variables              *)
(* repositories, selections and stagedMcp are the persisted document.      *)
(***************************************************************************)
SameKey(s, alias, path) == s.repoAlias = alias /\ s.assetPath = path

getRepository(repos, alias) ==
  LET i == IndexWhere(repos, LAMBDA r : r.alias = alias)
  IN IF i = 0 THEN <<>> ELSE <<repos[i]>>

addRepository(repos, repo) ==
  LET i == IndexWhere(repos, LAMBDA r : r.alias = repo.alias)
  IN IF i > 0 THEN [repos EXCEPT ![i] = repo] ELSE Append(repos, repo)

getSelectionsForRepo(sels, alias) == SelectSeq(sels, LAMBDA s : s.repoAlias = alias)

(* mutant: the existing record is looked up by its alias alone *)
getSelectionIndex_AliasOnly(sels, selection) ==
  IndexWhere(sels, LAMBDA s : s.repoAlias = selection.repoAlias)

(* findIndex by (repoAlias, assetPath); 0 stands for -1 *)
getSelectionIndex(sels, selection) ==
  IndexWhere(sels, LAMBDA s : SameKey(s, selection.repoAlias, selection.assetPath))

(* mutant: the record is appended without looking for its key *)
addSelection_AlwaysAppend(sels, selection) == Append(sels, selection)

addSelection(sels, selection) ==
  LET i == getSelectionIndex(sels, selection)
  IN IF i > 0 THEN [sels EXCEPT ![i] = selection] ELSE Append(sels, selection)

(* removeSelection: the new list and the removed record (none: <<>>) *)
removeSelection(sels, alias, path) ==
  LET i == IndexWhere(sels, LAMBDA s : SameKey(s, alias, path))
  IN IF i = 0 THEN [selections |-> sels, removed |-> <<>>]
     ELSE [selections |-> RemoveAt(sels, i), removed |-> <<sels[i]>>]

SameStaged(s, alias, path, name) ==
  s.repoAlias = alias /\ s.assetPath = path /\ s.serverName = name

(* mutant: the entry is appended without looking for the triple *)
stageMcpServer_AlwaysPush(staged, alias, path, name) ==
  Append(staged, [repoAlias |-> alias, assetPath |-> path, serverName |-> name])

stageMcpServer(staged, alias, path, name) ==
  IF \E i \in 1..Len(staged) : SameStaged(staged[i], alias, path, name)
    THEN staged
    ELSE Append(staged, [repoAlias |-> alias, assetPath |-> path, serverName |-> name])

unstageMcpServer(staged, alias, path, name) ==
  SelectSeq(staged, LAMBDA s : ~SameStaged(s, alias, path, name))

clearStagedMcp(staged) == <<>>

(***************************************************************************)
(* The inputs the operations are called with.                              *)
(***************************************************************************)

(* owner/repo identities that can be registered *)
Identities == {<<Str.o, Str.r>>, <<Str.o, Str.q>>}

AgentC == [type |-> "agent", path |-> <<Str.agents, Str.cMd>>, name |-> Str.c]
AgentLibC == [type |-> "agent", path |-> <<Str.lib, Str.cMd>>, name |-> Str.c]
SkillK == [type |-> "skill", path |-> <<Str.skills, Str.k, Str.skillMd>>, name |-> Str.k]
CommandD == [type |-> "command", path |-> <<Str.commands, Str.dMd>>, name |-> Str.d]
McpBundle == [type |-> "mcp", path |-> <<Str.mcpJson>>, name |-> Str.mcp]

(* the assets link, unlink and stage are called with *)
Assets == {AgentC, AgentLibC, SkillK, CommandD, McpBundle}


(* Files a clone of owner/repo puts under the source directory: the repo  *)
(* r holds two agents of the same file name, a skill and a bundle, the    *)
(* repo q a command and a bundle.  A bundle maps server names to values;  *)
(* the value names the repo it comes from.                                 *)
CloneContent(owner, repo) ==
  IF repo = Str.r
    THEN {<<AgentC.path, FileEntry>>, <<AgentLibC.path, FileEntry>>,
          <<SkillK.path, FileEntry>>,
          <<McpBundle.path, JsonEntry({<<Str.s, repo>>, <<Str.t, repo>>})>>}
    ELSE {<<CommandD.path, FileEntry>>,
          <<McpBundle.path, JsonEntry({<<Str.s, repo>>})>>}

(***************************************************************************)
(* alias.ts: generateAlias                                                 *)
(***************************************************************************)
nextFreeCounter_NoLoop(existingAliases, base, counter) == counter

RECURSIVE nextFreeCounter(_, _, _)
nextFreeCounter(existingAliases, base, counter) ==
  IF (base \o numberToString(counter)) \in existingAliases
    THEN nextFreeCounter(existingAliases, base, counter + 1)
    ELSE counter

generateAlias(repos, owner, repo) ==
  LET existingAliases == {r.alias : r \in Range(repos)}
      base == toLowerCase(owner) \o <<".">> \o toLowerCase(repo)
  IN IF base \notin existingAliases
       THEN base
       ELSE base \o numberToString(nextFreeCounter(existingAliases, base, 2))

(* parseGitHubUrl: <<>> for null, else a one-element list with owner and  *)
(* repo.  The query and the fragment are cut off and the rest is trimmed;  *)
(* then /github\.com[/:]([^/]+)\/([^/\s]+?)(?:\.git)?(?:\/|$)/ is tried at  *)
(* its leftmost match, then the shorthand /^([^/\s]+)\/([^/\s]+)$/; a      *)
(* trailing .git is removed from the repo.                                 *)
parseGitHubUrl(url) ==
  LET first(x, chars) == IF \E i \in 1..Len(x) : x[i] \in chars
                           THEN CHOOSE i \in 1..Len(x) :
                                  x[i] \in chars /\ \A j \in 1..(i - 1) : x[j] \notin chars
                           ELSE Len(x) + 1
      before(x, chars) == SubSeq(x, 1, first(x, chars) - 1)
      after(x, chars) == SubSeq(x, first(x, chars) + 1, Len(x))
      last(x) == IF \E i \in 1..Len(x) : x[i] # " "
                   THEN CHOOSE i \in 1..Len(x) :
                          x[i] # " " /\ \A j \in (i + 1)..Len(x) : x[j] = " "
                   ELSE 0
      trim(x) == SubSeq(x, first(x, {c \in Range(x) : c # " "}), last(x))
      stripGit(x) == IF Len(x) >= 4 /\ SubSeq(x, Len(x) - 3, Len(x)) = Str.dotGit
                       THEN SubSeq(x, 1, Len(x) - 4) ELSE x
      cleanUrl == trim(before(before(url, {"?"}), {"#"}))
      rest(i) == SubSeq(cleanUrl, i + Len(Str.githubCom) + 1, Len(cleanUrl))
      segment(i) == before(after(rest(i), {"/"}), {"/"})
      group2(i) == IF Len(segment(i)) > 4 THEN stripGit(segment(i)) ELSE segment(i)
      matches == {i \in 1..Len(cleanUrl) :
                    /\ i + Len(Str.githubCom) <= Len(cleanUrl)
                    /\ SubSeq(cleanUrl, i, i + Len(Str.githubCom) - 1) = Str.githubCom
                    /\ cleanUrl[i + Len(Str.githubCom)] \in {"/", ":"}
                    /\ before(rest(i), {"/"}) # <<>>
                    /\ first(rest(i), {"/"}) <= Len(rest(i))
                    /\ segment(i) # <<>>
                    /\ " " \notin Range(segment(i))}
      leftmost == CHOOSE i \in matches : \A j \in matches : i <= j
      owner == before(cleanUrl, {"/"})
      name == after(cleanUrl, {"/"})
  IN IF matches # {}
       THEN <<[owner |-> before(rest(leftmost), {"/"}), repo |-> stripGit(group2(leftmost))]>>
     ELSE IF /\ owner # <<>> /\ name # <<>>
             /\ first(cleanUrl, {"/"}) <= Len(cleanUrl)
             /\ "/" \notin Range(name)
             /\ " " \notin Range(cleanUrl)
       THEN <<[owner |-> owner, repo |-> stripGit(name)]>>
     ELSE <<>>

(* the aliases the operations are called with: those of the identities *)
Aliases == {generateAlias(<<>>, id[1], id[2]) : id \in Identities}

(***************************************************************************)
(* repository.ts                                                           *)
(***************************************************************************)
findExistingRepository_CaseSensitive(repos, owner, repo) ==
  LET i == IndexWhere(repos, LAMBDA r :
             /\ r.registryType = "github"
             /\ r.owner = owner
             /\ r.repo = repo)
  IN IF i = 0 THEN <<>> ELSE <<repos[i]>>

findExistingRepository(repos, owner, repo) ==
  LET i == IndexWhere(repos, LAMBDA r :
             /\ r.registryType = "github"
             /\ toLowerCase(r.owner) = toLowerCase(owner)
             /\ toLowerCase(r.repo) = toLowerCase(repo))
  IN IF i = 0 THEN <<>> ELSE <<repos[i]>>

(* git clone: the source directory and the files of the clone *)
gitClone(f, localPath, owner, repo) ==
  LET files == {join(localPath, c[1]) : c \in CloneContent(owner, repo)}
      entryOf(q) == (CHOOSE c \in CloneContent(owner, repo) : join(localPath, c[1]) = q)[2]
  IN [q \in DOMAIN f \cup {localPath} \cup files |->
        IF q \in files THEN entryOf(q)
        ELSE IF q = localPath THEN DirEntry
        ELSE f[q]]

(* The outcome of cloneRepository: status, the alias it generated, and  *)
(* the filesystem and the sources it leaves.                               *)
cloneRepositoryResult(repos, f, owner, repo) ==
  LET alias == generateAlias(repos, owner, repo)
      localPath == join(getReposDir, <<alias>>)
      f1 == IF existsSync(f, getReposDir) THEN f ELSE mkdir(f, getReposDir)
      repository == [alias |-> alias, registryType |-> "github",
                     localPath |-> localPath, owner |-> owner, repo |-> repo]
  IN IF findExistingRepository(repos, owner, repo) # <<>>
       THEN [status |-> "AlreadyRegistered", alias |-> alias, fs |-> f, repositories |-> repos]
     ELSE IF existsSync(f1, localPath)
       THEN [status |-> "AlreadyExists", alias |-> alias, fs |-> f1, repositories |-> repos]
     ELSE [status |-> "ok", alias |-> alias,
           fs |-> gitClone(f1, localPath, owner, repo),
           repositories |-> addRepository(repos, repository)]

(* cloneRepository(url): a url that does not parse is rejected before    *)
(* anything is read or written; the mutant registers it as it is           *)
cloneRepositoryUrlResult_NoParseCheck(repos, f, url) ==
  cloneRepositoryResult(repos, f, url, url)

cloneRepositoryUrlResult(repos, f, url) ==
  LET parsed == parseGitHubUrl(url)
  IN IF parsed = <<>>
       THEN [status |-> "InvalidUrl", alias |-> <<>>, fs |-> f, repositories |-> repos]
       ELSE cloneRepositoryResult(repos, f, parsed[1].owner, parsed[1].repo)

cloneRepository(url) ==
  LET res == cloneRepositoryUrlResult(repositories, fs, url)
  IN /\ fs' = res.fs
     /\ repositories' = res.repositories
     /\ UNCHANGED <<selections, stagedMcp, invocations>>

(* called with the shorthand owner/repo of an identity *)
CloneRepository ==
  \E id \in Identities :
    /\ Len(repositories) < MaxRepos
    /\ cloneRepository(id[1] \o <<"/">> \o id[2])

(* config.ts removeRepository: the Source and, by cascade, its Selections *)
(* and Staged Entries                                                      *)
removeRepository(cfg, alias) ==
  LET index == IndexWhere(cfg.repositories, LAMBDA r : r.alias = alias)
  IN IF index = 0 THEN cfg
     ELSE [repositories |-> RemoveAt(cfg.repositories, index),
           selections |-> SelectSeq(cfg.selections, LAMBDA s : s.repoAlias # alias),
           stagedMcp |-> SelectSeq(cfg.stagedMcp, LAMBDA s : s.repoAlias # alias)]

(* what removeRepository returns: the removed Source, or null *)
removeRepositoryReturn(cfg, alias) ==
  LET index == IndexWhere(cfg.repositories, LAMBDA r : r.alias = alias)
  IN IF index = 0 THEN <<>> ELSE <<cfg.repositories[index]>>

(* The outcome of removeRepo: status ("null" when the alias is not       *)
(* registered), the registry and the filesystem it leaves, and the         *)
(* unlinkedCount it reports.                                               *)
removeRepoResult(cfg, f, alias) ==
  LET found == getRepository(cfg.repositories, alias)
      repo == found[1]
  IN IF found = <<>>
       THEN [status |-> "null", config |-> cfg, fs |-> f, unlinkedCount |-> 0]
       ELSE [status |-> "ok", config |-> removeRepository(cfg, alias),
             fs |-> IF existsSync(f, repo.localPath) THEN rm(f, repo.localPath) ELSE f,
             unlinkedCount |-> Len(getSelectionsForRepo(cfg.selections, alias))]

(* the persisted document *)
Config == [repositories |-> repositories, selections |-> selections, stagedMcp |-> stagedMcp]

removeRepo(alias) ==
  LET res == removeRepoResult(Config, fs, alias)
  IN /\ repositories' = res.config.repositories
     /\ selections' = res.config.selections
     /\ stagedMcp' = res.config.stagedMcp
     /\ fs' = res.fs
     /\ UNCHANGED invocations

RemoveRepo == \E alias \in Aliases : removeRepo(alias)

(***************************************************************************)
(* linking.ts: link, unlink                                                *)
(***************************************************************************)
getTargetDir(type) ==
  CASE type = "agent" -> getAgentsDir
    [] type = "skill" -> getSkillsDir
    [] type = "command" -> getCommandsDir

(* where linkAsset puts the symlink of an asset *)
linkTargetPath(repoAlias, asset) ==
  IF asset.type = "skill"
    THEN join(join(getTargetDir(asset.type), <<getNamespacedFilename(repoAlias, asset.name)>>),
              <<Str.skillMd>>)
    ELSE LET ext == extname(asset.path[Len(asset.path)])
             nameWithoutExt == basename(asset.path, ext)
         IN join(getTargetDir(asset.type),
                 <<getNamespacedFilename(repoAlias, nameWithoutExt) \o ext>>)

(* addSelection called on its own, as the store's tests and the migrate   *)
(* command call it: the record of a link of agents/c.md, the same record   *)
(* with another link path, and the record of a config bundle               *)

SelectionInputs ==
  LET alias == generateAlias(<<>>, Str.o, Str.r)
  IN {[repoAlias |-> alias, assetPath |-> AgentC.path, type |-> "agent",
       linkedPath |-> linkTargetPath(alias, AgentC)],
      [repoAlias |-> alias, assetPath |-> AgentC.path, type |-> "agent",
       linkedPath |-> <<Str.new>>],
      [repoAlias |-> alias, assetPath |-> McpBundle.path, type |-> "mcp",
       linkedPath |-> <<>>]}

AddSelection ==
  \E selection \in SelectionInputs :
    /\ Len(addSelection(selections, selection)) <= MaxSelections
    /\ selections' = addSelection(selections, selection)
    /\ UNCHANGED <<repositories, stagedMcp, fs, invocations>>

(* mutant: the target directories are created before the asset is looked  *)
(* up, so a link that fails for a missing asset leaves them behind         *)
linkAssetResult_EnsureDirFirst(repos, sels, f, repoAlias, asset) ==
  LET found == getRepository(repos, repoAlias)
      repo == found[1]
      sourcePath == join(repo.localPath, asset.path)
      targetDir == getTargetDir(asset.type)
      f1 == ensureDir(f, targetDir)
      f2 == IF asset.type = "skill"
              THEN ensureDir(f1, join(targetDir, <<getNamespacedFilename(repoAlias, asset.name)>>))
              ELSE f1
      targetPath == linkTargetPath(repoAlias, asset)
      f3 == IF existsSync(f2, targetPath) THEN unlink(f2, targetPath) ELSE f2
      selection == [repoAlias |-> repoAlias, assetPath |-> asset.path,
                    type |-> asset.type, linkedPath |-> targetPath]
      fail(status, fsAfter) ==
        [status |-> status, fs |-> fsAfter, selections |-> sels, sel |-> <<>>]
  IN IF found = <<>> THEN fail("RepositoryNotFound", f)
     ELSE IF asset.type = "mcp" THEN fail("McpRejected", f)
     ELSE IF ~existsSync(f, sourcePath) THEN fail("AssetNotFound", f2)
     ELSE IF existsSync(f2, targetPath) /\ ~canUnlink(f2, targetPath) THEN fail("UnlinkFailed", f2)
     ELSE IF ~canSymlink(f3, targetPath) THEN fail("SymlinkFailed", f3)
     ELSE [status |-> "ok", fs |-> symlink(f3, sourcePath, targetPath),
           selections |-> addSelection(sels, selection), sel |-> <<selection>>]

(* The outcome of linkAsset: status, the filesystem and the selections    *)
(* it leaves, and the Selection it returns.                                *)
linkAssetResult(repos, sels, f, repoAlias, asset) ==
  LET found == getRepository(repos, repoAlias)
      repo == found[1]
      sourcePath == join(repo.localPath, asset.path)
      targetDir == getTargetDir(asset.type)
      f1 == ensureDir(f, targetDir)
      f2 == IF asset.type = "skill"
              THEN ensureDir(f1, join(targetDir, <<getNamespacedFilename(repoAlias, asset.name)>>))
              ELSE f1
      targetPath == linkTargetPath(repoAlias, asset)
      f3 == IF existsSync(f2, targetPath) THEN unlink(f2, targetPath) ELSE f2
      selection == [repoAlias |-> repoAlias, assetPath |-> asset.path,
                    type |-> asset.type, linkedPath |-> targetPath]
      fail(status, fsAfter) ==
        [status |-> status, fs |-> fsAfter, selections |-> sels, sel |-> <<>>]
  IN IF found = <<>> THEN fail("RepositoryNotFound", f)
     ELSE IF asset.type = "mcp" THEN fail("McpRejected", f)
     ELSE IF ~existsSync(f, sourcePath) THEN fail("AssetNotFound", f)
     ELSE IF existsSync(f2, targetPath) /\ ~canUnlink(f2, targetPath) THEN fail("UnlinkFailed", f2)
     ELSE IF ~canSymlink(f3, targetPath) THEN fail("SymlinkFailed", f3)
     ELSE [status |-> "ok", fs |-> symlink(f3, sourcePath, targetPath),
           selections |-> addSelection(sels, selection), sel |-> <<selection>>]

linkAsset(repoAlias, asset) ==
  LET res == linkAssetResult(repositories, selections, fs, repoAlias, asset)
  IN /\ Len(res.selections) <= MaxSelections
     /\ fs' = res.fs
     /\ selections' = res.selections
     /\ UNCHANGED <<repositories, stagedMcp, invocations>>

LinkAsset == \E alias \in Aliases, asset \in Assets : linkAsset(alias, asset)

unlinkAssetResult(sels, f, repoAlias, assetPath) ==
  LET rem == removeSelection(sels, repoAlias, assetPath)
      selection == rem.removed[1]
      f1 == unlink(f, selection.linkedPath)
      f2 == IF selection.type = "skill" /\ dirname(selection.linkedPath) \in DOMAIN f1
              THEN rm(f1, dirname(selection.linkedPath))
              ELSE f1
  IN IF rem.removed = <<>> THEN [status |-> "false", fs |-> f, selections |-> sels]
     ELSE IF selection.type = "mcp" THEN [status |-> "false", fs |-> f, selections |-> rem.selections]
     ELSE IF ~existsSync(f, selection.linkedPath)
       THEN [status |-> "true", fs |-> f, selections |-> rem.selections]
     ELSE IF ~canUnlink(f, selection.linkedPath)
       THEN [status |-> "UnlinkFailed", fs |-> f, selections |-> rem.selections]
     ELSE [status |-> "true", fs |-> f2, selections |-> rem.selections]

UnlinkAsset ==
  \E alias \in Aliases, asset \in Assets :
    LET res == unlinkAssetResult(selections, fs, alias, asset.path)
    IN /\ fs' = res.fs
       /\ selections' = res.selections
       /\ UNCHANGED <<repositories, stagedMcp, invocations>>

(***************************************************************************)
(* linking.ts: diagnose, cure                                              *)
(***************************************************************************)
(* the classification of one Selection: "skip" for an mcp Selection *)
linkIssue(repos, f, selection) ==
  LET found == getRepository(repos, selection.repoAlias)
  IN IF selection.type = "mcp" THEN "skip"
     ELSE IF ~existsSync(f, selection.linkedPath) THEN "broken_symlink"
     ELSE IF ~isSymbolicLink(f, selection.linkedPath) THEN "broken_symlink"
     ELSE IF found = <<>> THEN "missing_source"
     ELSE IF ~existsSync(f, join(found[1].localPath, selection.assetPath)) THEN "missing_source"
     ELSE "healthy"

diagnose(repos, sels, f) ==
  LET health(s) == [selection |-> s, healthy |-> linkIssue(repos, f, s) = "healthy",
                    issue |-> linkIssue(repos, f, s)]
      all == [i \in 1..Len(sels) |-> health(sels[i])]
  IN [healthy |-> SelectSeq(all, LAMBDA h : h.issue = "healthy"),
      broken |-> SelectSeq(all, LAMBDA h : h.issue \in {"broken_symlink", "missing_source"})]

(* diagnose reads the registry and the filesystem and changes neither *)
Diagnose ==
  /\ UNCHANGED <<repositories, selections, stagedMcp, fs, invocations>>

(* one iteration of the loop of cure over the broken entries *)
cureOne(st, link) ==
  LET linkedPath == link.selection.linkedPath
      f1 == IF existsSync(st.fs, linkedPath) THEN unlink(st.fs, linkedPath) ELSE st.fs
      sels1 == removeSelection(st.selections, link.selection.repoAlias,
                               link.selection.assetPath).selections
      f2 == IF link.selection.type = "skill" /\ dirname(linkedPath) \in DOMAIN f1
              THEN rm(f1, dirname(linkedPath))
              ELSE f1
  IN IF existsSync(st.fs, linkedPath) /\ ~canUnlink(st.fs, linkedPath)
       THEN [st EXCEPT !.errors = Append(@, linkedPath)]
       ELSE [st EXCEPT !.fs = f2, !.selections = sels1, !.fixed = @ + 1]

(* mutant: the loop stops at the first entry that fails *)
RECURSIVE cureLoop_StopAtError(_, _, _)
cureLoop_StopAtError(st, broken, i) ==
  IF i > Len(broken) \/ st.errors # <<>> THEN st
  ELSE cureLoop_StopAtError(cureOne(st, broken[i]), broken, i + 1)

RECURSIVE cureLoop(_, _, _)
cureLoop(st, broken, i) ==
  IF i > Len(broken) THEN st ELSE cureLoop(cureOne(st, broken[i]), broken, i + 1)

cureResult(repos, sels, f) ==
  cureLoop([fs |-> f, selections |-> sels, fixed |-> 0, errors |-> <<>>],
           diagnose(repos, sels, f).broken, 1)

Cure ==
  LET res == cureResult(repositories, selections, fs)
  IN /\ fs' = res.fs
     /\ selections' = res.selections
     /\ UNCHANGED <<repositories, stagedMcp, invocations>>

(***************************************************************************)
(* linking.ts: staging and the merged config                               *)
(***************************************************************************)
RECURSIVE pathString(_)
pathString(p) ==
  IF Len(p) = 0 THEN <<>>
  ELSE IF Len(p) = 1 THEN p[1]
  ELSE p[1] \o <<"/">> \o pathString(Tail(p))

(* mutant: every server of the bundle is merged, staged or not *)
buildOne_WholeBundle(repos, f, st, entry) ==
  LET found == getRepository(repos, entry.repoAlias)
      sourcePath == join(found[1].localPath, entry.assetPath)
  IN IF found = <<>> THEN st
     ELSE IF ~existsSync(f, sourcePath) THEN st
     ELSE IF ~f[sourcePath].parses THEN st
     ELSE [st EXCEPT !.merged = {e \in @ : \A x \in f[sourcePath].servers : x[1] # e[1]}
                                  \cup f[sourcePath].servers]

(* one iteration of the loop of buildMcpConfig; st.cache is fileCache.     *)
(* A value of mcpServers is an McpServerConfig object, so the test         *)
(* if (serverConfig) is the test that the name is a key of the bundle.     *)
buildOne(repos, f, st, entry) ==
  LET cacheKey == entry.repoAlias \o <<":">> \o pathString(entry.assetPath)
      cached == {c \in st.cache : c[1] = cacheKey}
      found == getRepository(repos, entry.repoAlias)
      sourcePath == join(found[1].localPath, entry.assetPath)
      cache1 == IF cached # {} THEN st.cache
                ELSE st.cache \cup {<<cacheKey, f[sourcePath].servers>>}
      config == (CHOOSE c \in cache1 : c[1] = cacheKey)[2]
      hit == {e \in config : e[1] = entry.serverName}
  IN IF cached = {} /\ found = <<>> THEN st
     ELSE IF cached = {} /\ ~existsSync(f, sourcePath) THEN st
     ELSE IF cached = {} /\ ~f[sourcePath].parses THEN st
     ELSE IF hit = {} THEN [st EXCEPT !.cache = cache1]
     ELSE [cache |-> cache1,
           merged |-> {e \in st.merged : e[1] # entry.serverName} \cup {<<entry.serverName, ((CHOOSE e \in hit : TRUE)[2])>>}]

(* mutant: the staged list is walked from its end, the earliest entry wins *)
RECURSIVE buildLoop_Backwards(_, _, _, _, _)
buildLoop_Backwards(repos, f, st, staged, i) ==
  IF i > Len(staged) THEN st
  ELSE buildOne(repos, f, buildLoop_Backwards(repos, f, st, staged, i + 1), staged[i])

RECURSIVE buildLoop(_, _, _, _, _)
buildLoop(repos, f, st, staged, i) ==
  IF i > Len(staged) THEN st
  ELSE buildLoop(repos, f, buildOne(repos, f, st, staged[i]), staged, i + 1)

(* the mcpServers map of the merged config *)
buildMcpConfig(repos, staged, f) ==
  buildLoop(repos, f, [cache |-> {}, merged |-> {}], staged, 1).merged

RECURSIVE stageAll(_, _, _, _)
stageAll(staged, alias, path, names) ==
  IF names = <<>> THEN staged
  ELSE stageAll(stageMcpServer(staged, alias, path, Head(names)), alias, path, Tail(names))

RECURSIVE unstageAll(_, _, _, _)
unstageAll(staged, alias, path, names) ==
  IF names = <<>> THEN staged
  ELSE unstageAll(unstageMcpServer(staged, alias, path, Head(names)), alias, path, Tail(names))

NameLists == {<<Str.s>>, <<Str.t>>, <<Str.s, Str.t>>}

stageMcpServers(alias, path, names) ==
  /\ stagedMcp' = stageAll(stagedMcp, alias, path, names)
  /\ Len(stagedMcp') <= MaxStaged
  /\ UNCHANGED <<repositories, selections, fs, invocations>>

StageMcpServers ==
  \E alias \in Aliases, names \in NameLists : stageMcpServers(alias, McpBundle.path, names)

UnstageMcpServers ==
  \E alias \in Aliases, names \in NameLists :
    /\ stagedMcp' = unstageAll(stagedMcp, alias, McpBundle.path, names)
    /\ UNCHANGED <<repositories, selections, fs, invocations>>

(* mutant: the staged list is cleared before the output file is written *)
syncMcpResult_ClearBeforeWrite(repos, staged, f, writeOk) ==
  LET merged == buildMcpConfig(repos, staged, f)
      f1 == ensureDir(f, getClaudeDir)
  IN IF writeOk
       THEN [status |-> "ok", fs |-> writeFile(f1, getMcpConfigPath, JsonEntry(merged)),
             stagedMcp |-> clearStagedMcp(staged)]
       ELSE [status |-> "WriteFailed", fs |-> f1, stagedMcp |-> clearStagedMcp(staged)]

(* The outcome of syncMcp; writeOk is whether writeFile on the output    *)
(* file succeeds.                                                          *)
syncMcpResult(repos, staged, f, writeOk) ==
  LET merged == buildMcpConfig(repos, staged, f)
      f1 == ensureDir(f, getClaudeDir)
  IN IF writeOk
       THEN [status |-> "ok", fs |-> writeFile(f1, getMcpConfigPath, JsonEntry(merged)),
             stagedMcp |-> clearStagedMcp(staged)]
       ELSE [status |-> "WriteFailed", fs |-> f1, stagedMcp |-> staged]

SyncMcp ==
  \E writeOk \in BOOLEAN :
    LET res == syncMcpResult(repositories, stagedMcp, fs, writeOk)
    IN /\ fs' = res.fs
       /\ stagedMcp' = res.stagedMcp
       /\ UNCHANGED <<repositories, selections, invocations>>

(***************************************************************************)
(* The environment: the files of a source directory and the link target   *)
(* tree are changed from outside: upstream deletes the file of a linked    *)
(* asset or a staged bundle, the user deletes a symlink.                   *)
(***************************************************************************)
DeleteSourceFile ==
  \E r \in Range(repositories), s \in Range(selections) :
    /\ s.repoAlias = r.alias
    /\ join(r.localPath, s.assetPath) \in DOMAIN fs
    /\ fs' = unlink(fs, join(r.localPath, s.assetPath))
    /\ UNCHANGED <<repositories, selections, stagedMcp, invocations>>

DeleteBundle ==
  \E r \in Range(repositories), s \in Range(stagedMcp) :
    /\ s.repoAlias = r.alias
    /\ join(r.localPath, s.assetPath) \in DOMAIN fs
    /\ fs' = unlink(fs, join(r.localPath, s.assetPath))
    /\ UNCHANGED <<repositories, selections, stagedMcp, invocations>>

(* the bundle of a Staged Entry is overwritten with text that is not JSON *)
CorruptBundle ==
  \E r \in Range(repositories), s \in Range(stagedMcp) :
    /\ s.repoAlias = r.alias
    /\ join(r.localPath, s.assetPath) \in DOMAIN fs
    /\ fs[join(r.localPath, s.assetPath)].parses
    /\ fs' = writeFile(fs, join(r.localPath, s.assetPath), FileEntry)
    /\ UNCHANGED <<repositories, selections, stagedMcp, invocations>>

DeleteLink ==
  \E s \in Range(selections) :
    /\ isSymbolicLink(fs, s.linkedPath)
    /\ fs' = unlink(fs, s.linkedPath)
    /\ UNCHANGED <<repositories, selections, stagedMcp, invocations>>

(* the user puts a directory where the symlink of a Selection was *)
ReplaceLinkByDirectory ==
  \E s \in Range(selections) :
    /\ isSymbolicLink(fs, s.linkedPath)
    /\ fs' = writeFile(fs, s.linkedPath, DirEntry)
    /\ UNCHANGED <<repositories, selections, stagedMcp, invocations>>

(* the user puts a regular file of their own where the symlink was *)
ReplaceLinkByFile ==
  \E s \in Range(selections) :
    /\ isSymbolicLink(fs, s.linkedPath)
    /\ fs' = writeFile(fs, s.linkedPath, FileEntry)
    /\ UNCHANGED <<repositories, selections, stagedMcp, invocations>>

(* the user keeps a file of their own in the directory of a linked skill *)

AddFileToSkillDir ==
  \E s \in Range(selections) :
    /\ s.type = "skill"
    /\ dirname(s.linkedPath) \in DOMAIN fs
    /\ fs' = writeFile(fs, join(dirname(s.linkedPath), <<Str.notesMd>>), FileEntry)
    /\ UNCHANGED <<repositories, selections, stagedMcp, invocations>>

(***************************************************************************)
(* cli: the batches of ccm use and ccm unuse --all                         *)
(***************************************************************************)
(* use.ts: the link loop; every asset adds one line to results *)
RECURSIVE useLinkLoop(_, _, _, _, _)
useLinkLoop(repos, st, alias, selectedAssets, i) ==
  IF i > Len(selectedAssets) THEN st
  ELSE LET asset == selectedAssets[i]
           res == linkAssetResult(repos, st.selections, st.fs, alias, asset)
           line == [linked |-> res.status = "ok", path |-> asset.path]
       IN useLinkLoop(repos,
                      [selections |-> res.selections, fs |-> res.fs,
                       results |-> Append(st.results, line)],
                      alias, selectedAssets, i + 1)

useAssetsResult(repos, sels, f, alias, selectedAssets) ==
  useLinkLoop(repos, [selections |-> sels, fs |-> f, results |-> <<>>],
              alias, selectedAssets, 1)

(* what the picker can return: assets of the Source that are not bundles *)
AssetLists ==
  {<<AgentC>>, <<AgentC, CommandD>>, <<AgentLibC, AgentC>>, <<SkillK, AgentC>>,
   <<CommandD, SkillK>>}

UseAssets ==
  \E alias \in Aliases, selectedAssets \in AssetLists :
    LET res == useAssetsResult(repositories, selections, fs, alias, selectedAssets)
    IN /\ getRepository(repositories, alias) # <<>>
       /\ Len(res.selections) <= MaxSelections
       /\ fs' = res.fs
       /\ selections' = res.selections
       /\ UNCHANGED <<repositories, stagedMcp, invocations>>

(* unuse.ts --all: the unlink loop has no try, an exception of unlinkAsset *)
(* ends the command; attempted counts the calls of unlinkAsset             *)
unuseOne(res, i) ==
  [status |-> IF res.status = "UnlinkFailed" THEN res.status ELSE "ok",
   selections |-> res.selections, fs |-> res.fs, attempted |-> i]

RECURSIVE unuseAllLoop(_, _, _)
unuseAllLoop(st, linkedAssets, i) ==
  IF i > Len(linkedAssets) \/ st.status # "ok" THEN st
  ELSE unuseAllLoop(unuseOne(unlinkAssetResult(st.selections, st.fs,
                                               linkedAssets[i].repoAlias,
                                               linkedAssets[i].assetPath), i),
                    linkedAssets, i + 1)

RECURSIVE unstageEach(_, _, _)
unstageEach(current, staged, i) ==
  IF i > Len(staged) THEN current
  ELSE unstageEach(unstageMcpServer(current, staged[i].repoAlias, staged[i].assetPath,
                                    staged[i].serverName),
                   staged, i + 1)

(* the unstage loop runs only when the unlink loop came to its end *)
unuseUnstage(st, staged, linkedAssets) ==
  [status |-> st.status, selections |-> st.selections, fs |-> st.fs,
   linkedAssets |-> linkedAssets, attempted |-> st.attempted,
   stagedMcp |-> IF st.status = "ok" THEN unstageEach(staged, staged, 1) ELSE staged,
   unstaged |-> IF st.status = "ok" THEN Len(staged) ELSE 0]

linkedAssetsOf(sels) ==
  LET notMcp(s) == s.type # "mcp"
  IN SelectSeq(sels, notMcp)

unuseAllResult(sels, staged, f) ==
  unuseUnstage(unuseAllLoop([status |-> "ok", selections |-> sels, fs |-> f, attempted |-> 0],
                            linkedAssetsOf(sels), 1),
               staged, linkedAssetsOf(sels))

UnuseAll ==
  LET res == unuseAllResult(selections, stagedMcp, fs)
  IN /\ ~(res.linkedAssets = <<>> /\ stagedMcp = <<>>)
     /\ fs' = res.fs
     /\ selections' = res.selections
     /\ stagedMcp' = res.stagedMcp
     /\ UNCHANGED <<repositories, invocations>>


(***************************************************************************)
(* config.ts: loadConfig and the migration of legacy aliases.              *)
(***************************************************************************)


(* no dot, and /^[a-z]{1,4}\d*$/; the mutant takes every alias for a     *)
(* legacy alias                                                            *)
isLegacyAliasFormat_Always(alias) == TRUE

isLegacyAliasFormat(alias) ==
  /\ \A i \in 1..Len(alias) : alias[i] # "."
  /\ \E k \in 1..4 :
       /\ k <= Len(alias)
       /\ \A i \in 1..k : alias[i] \in {UpperToLower[c] : c \in DOMAIN UpperToLower}
       /\ \A i \in (k + 1)..Len(alias) : alias[i] \in {Digit[n] : n \in 0..9}

generateNewAlias(owner, repo) == toLowerCase(owner) \o <<".">> \o toLowerCase(repo)

(* String.prototype.includes on one path segment *)
includes(s, part) ==
  \E i \in 1..(Len(s) - Len(part) + 1) : SubSeq(s, i, i + Len(part) - 1) = part

(* s.replace(new RegExp(pat, "g"), rep) for a pattern without operators *)
RECURSIVE replaceAll(_, _, _)
replaceAll(s, pat, rep) ==
  IF Len(s) < Len(pat) THEN s
  ELSE IF SubSeq(s, 1, Len(pat)) = pat
    THEN rep \o replaceAll(SubSeq(s, Len(pat) + 1, Len(s)), pat, rep)
  ELSE <<s[1]>> \o replaceAll(Tail(s), pat, rep)

(* fs.rename of a directory: the entry and everything below it moves *)
rename(f, oldPath, newPath) ==
  LET moved(q) == newPath \o SubSeq(q, Len(oldPath) + 1, Len(q))
      staying == {q \in DOMAIN f : ~IsPrefix(oldPath, q)}
      moving == {q \in DOMAIN f : IsPrefix(oldPath, q)}
  IN [q \in staying \cup {moved(q) : q \in moving} |->
        IF q \in staying THEN f[q]
        ELSE f[CHOOSE o \in moving : moved(o) = q]]

(* loadConfig: a record without registryType is a GitHub source *)
withRegistryType(repo) ==
  IF "registryType" \in DOMAIN repo THEN repo
  ELSE [k \in DOMAIN repo \cup {"registryType"} |->
          IF k = "registryType" THEN "github" ELSE repo[k]]

(* the while loop that resolves a collision of the new alias of repos[i] *)
RECURSIVE migratedAlias(_, _, _, _, _)
migratedAlias(repos, i, newAlias, finalAlias, counter) ==
  IF \E j \in 1..Len(repos) : j # i /\ repos[j].alias = finalAlias
    THEN migratedAlias(repos, i, newAlias, newAlias \o numberToString(counter), counter + 1)
    ELSE finalAlias

(* the first loop: aliasMapping, old alias -> new alias, as a function *)
RECURSIVE aliasMappingLoop(_, _, _)
aliasMappingLoop(repos, i, mapping) ==
  IF i > Len(repos) THEN mapping
  ELSE IF repos[i].registryType = "github" /\ isLegacyAliasFormat(repos[i].alias)
    THEN LET newAlias == generateNewAlias(repos[i].owner, repos[i].repo)
             finalAlias == migratedAlias(repos, i, newAlias, newAlias, 2)
         IN aliasMappingLoop(repos, i + 1,
              [a \in DOMAIN mapping \cup {repos[i].alias} |->
                 IF a = repos[i].alias THEN finalAlias ELSE mapping[a]])
  ELSE aliasMappingLoop(repos, i + 1, mapping)

(* the second loop: the sources get their new alias and their directory   *)
(* is renamed; renameFails holds the indexes of the sources whose rename   *)
(* throws                                                                  *)
RECURSIVE migrateReposLoop(_, _, _, _)
migrateReposLoop(st, i, mapping, renameFails) ==
  IF i > Len(st.repositories) THEN st
  ELSE LET repo == st.repositories[i]
       IN IF repo.alias \notin DOMAIN mapping
            THEN migrateReposLoop(st, i + 1, mapping, renameFails)
            ELSE
              LET newAlias == mapping[repo.alias]
                  oldPath == repo.localPath
                  newPath == join(getReposDir, <<newAlias>>)
                  tryRename == existsSync(st.fs, oldPath) /\ ~existsSync(st.fs, newPath)
                  f1 == IF tryRename /\ i \notin renameFails
                          THEN rename(st.fs, oldPath, newPath) ELSE st.fs
                  localPath == IF tryRename
                                 THEN (IF i \in renameFails THEN oldPath ELSE newPath)
                               ELSE IF existsSync(st.fs, newPath) THEN newPath
                               ELSE oldPath
                  repo1 == [repo EXCEPT !.localPath = localPath, !.alias = newAlias]
              IN migrateReposLoop([repositories |-> [st.repositories EXCEPT ![i] = repo1],
                                   fs |-> f1],
                                  i + 1, mapping, renameFails)

migrateSelection(selection, mapping) ==
  IF selection.repoAlias \notin DOMAIN mapping THEN selection
  ELSE LET oldAlias == selection.repoAlias
           newAlias == mapping[oldAlias]
           newLinkedPath ==
             IF \E k \in 1..Len(selection.linkedPath) : includes(selection.linkedPath[k], oldAlias)
               THEN [k \in 1..Len(selection.linkedPath) |->
                       replaceAll(selection.linkedPath[k], oldAlias \o <<"-">>,
                                  newAlias \o <<"-">>)]
               ELSE selection.linkedPath
       IN [selection EXCEPT !.repoAlias = newAlias, !.linkedPath = newLinkedPath]

migrateStaged_KeepAlias(staged, mapping) == staged

migrateStaged(staged, mapping) ==
  IF staged.repoAlias \notin DOMAIN mapping THEN staged
  ELSE [staged EXCEPT !.repoAlias = mapping[staged.repoAlias]]

(* migrateLegacyAliases: migrated, the config and the filesystem it leaves *)
migrateLegacyAliases(cfg, f, renameFails) ==
  LET mapping == aliasMappingLoop(cfg.repositories, 1, [a \in {} |-> <<>>])
      st == migrateReposLoop([repositories |-> cfg.repositories, fs |-> f], 1,
                             mapping, renameFails)
  IN IF DOMAIN mapping = {}
       THEN [migrated |-> FALSE, config |-> cfg, fs |-> f]
       ELSE [migrated |-> TRUE,
             config |-> [repositories |-> st.repositories,
                         selections |-> [j \in 1..Len(cfg.selections) |->
                                           migrateSelection(cfg.selections[j], mapping)],
                         stagedMcp |-> [j \in 1..Len(cfg.stagedMcp) |->
                                          migrateStaged(cfg.stagedMcp[j], mapping)]],
             fs |-> st.fs]

(* loadConfig on the persisted document cfg: the config it returns, the   *)
(* document that is persisted afterwards (rewritten only after a           *)
(* migration) and the filesystem                                           *)
loadConfigResult(cfg, f, renameFails) ==
  LET parsed == [cfg EXCEPT !.repositories =
                   [j \in 1..Len(cfg.repositories) |-> withRegistryType(cfg.repositories[j])]]
      res == migrateLegacyAliases(parsed, f, renameFails)
  IN [config |-> res.config,
      persisted |-> IF res.migrated THEN res.config ELSE cfg,
      fs |-> res.fs]

(* every operation starts with loadConfig; the step is taken on its own   *)
LoadConfig ==
  \E renameFails \in SUBSET (1..Len(repositories)) :
    LET res == loadConfigResult(Config, fs, renameFails)
    IN /\ repositories' = res.persisted.repositories
       /\ selections' = res.persisted.selections
       /\ stagedMcp' = res.persisted.stagedMcp
       /\ fs' = res.fs
       /\ UNCHANGED invocations

(* the persisted document is what a load returns: nothing to migrate *)
StoreLoaded ==
  \A r \in Range(repositories) :
    /\ "registryType" \in DOMAIN r
    /\ ~(r.registryType = "github" /\ isLegacyAliasFormat(r.alias))

(***************************************************************************)
(* The registry store as its operations are called: registration,          *)
(* addRepository, updateRepository, removal and loads.                     *)
(***************************************************************************)

(* owner/repo identities registered with the store: O/r is o/r in another *)
(* spelling, o/r.q and o.r/q share the base o.r.q, o/r.q2 has the base     *)
(* o.r.q2                                                                  *)
StoreIdentities ==
  {<<Str.o, Str.r>>, <<Str.upperO, Str.r>>, <<Str.o, Str.rDotQ>>, <<Str.oDotR, Str.q>>, <<Str.o, Str.rDotQ2>>}

(* the alias scheme of the version before owner.repo: the first four      *)
(* characters of the owner, numbered on collision                          *)
generateAliasLegacy(repos, username) ==
  LET existingAliases == {r.alias : r \in Range(repos)}
      base == IF Len(username) <= 4 THEN toLowerCase(username)
              ELSE toLowerCase(SubSeq(username, 1, 4))
  IN IF base \notin existingAliases
       THEN base
       ELSE base \o numberToString(nextFreeCounter(existingAliases, base, 2))

(* The version before owner.repo in use: no record has a registryType.    *)
LegacyStore ==
  \A r \in Range(repositories) : "registryType" \notin DOMAIN r

(* registration by the version before owner.repo: a source under its      *)
(* short alias, without registryType                                       *)
LegacyRegister ==
  \E id \in {<<Str.o, Str.r>>, <<Str.o, Str.r2>>, <<Str.oDotR, Str.q>>} :
    LET alias == generateAliasLegacy(repositories, id[1])
        localPath == join(getReposDir, <<alias>>)
    IN /\ LegacyStore
       /\ \A r \in Range(repositories) :
            ~(toLowerCase(r.owner) = toLowerCase(id[1]) /\ toLowerCase(r.repo) = toLowerCase(id[2]))
       /\ repositories' = Append(repositories, [alias |-> alias, localPath |-> localPath,
                                                owner |-> id[1], repo |-> id[2]])
       /\ fs' = gitClone(fs, localPath, id[1], id[2])
       /\ UNCHANGED <<selections, stagedMcp, invocations>>

LegacyLink ==
  \E alias \in {r.alias : r \in Range(repositories)}, asset \in {AgentC, CommandD} :
    /\ LegacyStore
    /\ linkAsset(alias, asset)

LegacyStage ==
  \E alias \in {r.alias : r \in Range(repositories)} :
    /\ LegacyStore
    /\ stageMcpServers(alias, McpBundle.path, <<Str.s>>)

(* the urls registration is called with: the shorthand of the            *)
(* identities, a clone url of o/r, and texts that are no GitHub url        *)
StoreUrls ==
  {id[1] \o <<"/">> \o id[2] : id \in StoreIdentities}
    \cup {Str.githubCom \o <<"/">> \o Str.o \o <<"/">> \o Str.r \o Str.dotGit,
          Str.o, Str.o \o <<"/">> \o Str.r \o <<"/">> \o Str.q}

RegisterSource ==
  \E url \in StoreUrls :
    /\ StoreLoaded
    /\ Len(repositories) < MaxRepos
    /\ cloneRepository(url)

RemoveSource ==
  \E alias \in {r.alias : r \in Range(repositories)} \cup Aliases :
    /\ StoreLoaded
    /\ removeRepo(alias)

(* addRepository called with the record of a source under its base alias *)
AddRepository ==
  \E id \in {<<Str.o, Str.q>>, <<Str.upperO, Str.q>>} :
    LET alias == generateNewAlias(id[1], id[2])
        repo == [alias |-> alias, registryType |-> "github",
                 localPath |-> join(getReposDir, <<alias>>), owner |-> id[1], repo |-> id[2]]
    IN /\ StoreLoaded
       /\ Len(addRepository(repositories, repo)) <= MaxRepos
       /\ repositories' = addRepository(repositories, repo)
       /\ UNCHANGED <<selections, stagedMcp, fs, invocations>>

(* { ...repo, ...updates } on records *)
updateRepository(repos, alias, updates) ==
  LET index == IndexWhere(repos, LAMBDA r : r.alias = alias)
  IN IF index = 0 THEN repos
     ELSE [repos EXCEPT ![index] =
             [k \in DOMAIN repos[index] \cup DOMAIN updates |->
                IF k \in DOMAIN updates THEN updates[k] ELSE repos[index][k]]]

(* the partial records updateRepository is called with: the refresh of    *)
(* updateRepo, and a change of the alias field                             *)
UpdateRepository ==
  \E alias \in {r.alias : r \in Range(repositories)} \cup Aliases,
     updates \in {[updatedAt |-> Str.refreshed], [alias |-> generateNewAlias(Str.o, Str.r)]} :
    /\ StoreLoaded
    /\ repositories' = updateRepository(repositories, alias, updates)
    /\ UNCHANGED <<selections, stagedMcp, fs, invocations>>
(***************************************************************************)
(* config.ts: loadConfig on the store file.  The file is the entry of the  *)
(* filesystem at getConfigPath: missing, text that is not JSON, or a JSON  *)
(* object with some of the three top-level keys; repositories, selections *)
(* and stagedMcp are the lists under the keys it has.                      *)
(***************************************************************************)

getConfigDir == <<Str.dotConfig, Str.ccm>>
getConfigPath == join(getConfigDir, <<Str.configJson>>)

StoreKeys == {"repositories", "selections", "stagedMcp"}

StoreFileEntry(keys) ==
  [kind |-> "file", target |-> <<>>, parses |-> TRUE, servers |-> {},
   keys |-> keys, frontmatter |-> <<>>]

createDefaultConfig == [repositories |-> <<>>, selections |-> <<>>, stagedMcp |-> <<>>]

(* JSON.parse of the content and the three reads parsed.x ?? [] *)
parseStore(cfg, keys) ==
  [repositories |-> IF "repositories" \in keys THEN cfg.repositories ELSE <<>>,
   selections |-> IF "selections" \in keys THEN cfg.selections ELSE <<>>,
   stagedMcp |-> IF "stagedMcp" \in keys THEN cfg.stagedMcp ELSE <<>>]

(* mutant: a document without one of the three lists is not accepted *)
loadConfig_ListsRequired(cfg, f, renameFails, writeOk) ==
  LET readable == f[getConfigPath].kind = "file" /\ f[getConfigPath].parses
      parsed == parseStore(cfg, f[getConfigPath].keys)
      withType == [parsed EXCEPT !.repositories =
                     [j \in 1..Len(parsed.repositories) |-> withRegistryType(parsed.repositories[j])]]
      res == migrateLegacyAliases(withType, f, renameFails)
      default(fsAfter) ==
        [status |-> "ok", config |-> createDefaultConfig, document |-> cfg, fs |-> fsAfter]
  IN IF ~existsSync(f, getConfigPath) THEN default(f)
     ELSE IF ~readable THEN default(f)
     ELSE IF f[getConfigPath].keys # StoreKeys THEN default(f)
     ELSE IF res.migrated /\ ~writeOk THEN default(res.fs)
     ELSE IF res.migrated
       THEN [status |-> "ok", config |-> res.config, document |-> res.config,
             fs |-> writeFile(ensureDir(res.fs, getConfigDir), getConfigPath,
                              StoreFileEntry(StoreKeys))]
     ELSE [status |-> "ok", config |-> res.config, document |-> cfg, fs |-> f]

(* loadConfig: status ("ok": it returns), the config it returns, the       *)
(* lists of the store file afterwards and the filesystem.  Whatever is     *)
(* thrown after existsSync (readFile on a directory, JSON.parse, the write *)
(* of the migrated document: writeOk) is caught and the default returned.  *)
loadConfig(cfg, f, renameFails, writeOk) ==
  LET readable == f[getConfigPath].kind = "file" /\ f[getConfigPath].parses
      parsed == parseStore(cfg, f[getConfigPath].keys)
      withType == [parsed EXCEPT !.repositories =
                     [j \in 1..Len(parsed.repositories) |-> withRegistryType(parsed.repositories[j])]]
      res == migrateLegacyAliases(withType, f, renameFails)
      default(fsAfter) ==
        [status |-> "ok", config |-> createDefaultConfig, document |-> cfg, fs |-> fsAfter]
  IN IF ~existsSync(f, getConfigPath) THEN default(f)
     ELSE IF ~readable THEN default(f)
     ELSE IF res.migrated /\ ~writeOk THEN default(res.fs)
     ELSE IF res.migrated
       THEN [status |-> "ok", config |-> res.config, document |-> res.config,
             fs |-> writeFile(ensureDir(res.fs, getConfigDir), getConfigPath,
                              StoreFileEntry(StoreKeys))]
     ELSE [status |-> "ok", config |-> res.config, document |-> cfg, fs |-> f]

(* the documents written to the store file from outside: one of the        *)
(* version before owner.repo and one of this version, each with a Source,  *)
(* a Selection and a Staged Entry                                           *)
storeDocument(alias, withType) ==
  LET repo == [alias |-> alias, localPath |-> join(getReposDir, <<alias>>),
               owner |-> Str.o, repo |-> Str.r]
  IN [repositories |-> <<IF withType THEN withRegistryType(repo) ELSE repo>>,
      selections |-> <<[repoAlias |-> alias, assetPath |-> AgentC.path, type |-> "agent",
                        linkedPath |-> linkTargetPath(alias, AgentC)]>>,
      stagedMcp |-> <<[repoAlias |-> alias, assetPath |-> McpBundle.path, serverName |-> Str.s]>>]


WriteStoreFile ==
  \E doc \in {storeDocument(generateAliasLegacy(<<>>, Str.o), FALSE),
              storeDocument(generateAlias(<<>>, Str.o, Str.r), TRUE)},
     keys \in SUBSET StoreKeys :
    /\ repositories' = parseStore(doc, keys).repositories
    /\ selections' = parseStore(doc, keys).selections
    /\ stagedMcp' = parseStore(doc, keys).stagedMcp
    /\ fs' = writeFile(mkdir(fs, getConfigDir), getConfigPath, StoreFileEntry(keys))
    /\ UNCHANGED invocations

(* the file is overwritten with text that is not JSON *)
CorruptStoreFile ==
  /\ getConfigPath \in DOMAIN fs
  /\ fs' = writeFile(fs, getConfigPath, FileEntry)
  /\ UNCHANGED <<repositories, selections, stagedMcp, invocations>>

DeleteStoreFile ==
  /\ getConfigPath \in DOMAIN fs
  /\ fs' = unlink(fs, getConfigPath)
  /\ UNCHANGED <<repositories, selections, stagedMcp, invocations>>

LoadStoreFile ==
  \E renameFails \in SUBSET (1..Len(repositories)), writeOk \in BOOLEAN :
    LET res == loadConfig(Config, fs, renameFails, writeOk)
    IN /\ repositories' = res.document.repositories
       /\ selections' = res.document.selections
       /\ stagedMcp' = res.document.stagedMcp
       /\ fs' = res.fs
       /\ UNCHANGED invocations

(* saveConfig *)
saveConfig(f) ==
  writeFile(ensureDir(f, getConfigDir), getConfigPath, StoreFileEntry(StoreKeys))

(* a store operation on the file: stageMcpServer loads, pushes and saves *)
StageOnStoreFile ==
  \E alias \in Aliases, name \in {Str.s, Str.t}, renameFails \in SUBSET (1..Len(repositories)) :
    LET res == loadConfig(Config, fs, renameFails, TRUE)
        staged == stageMcpServer(res.config.stagedMcp, alias, McpBundle.path, name)
    IN /\ Len(staged) <= MaxStaged
       /\ repositories' = res.config.repositories
       /\ selections' = res.config.selections
       /\ stagedMcp' = staged
       /\ fs' = saveConfig(res.fs)
       /\ UNCHANGED invocations

(***************************************************************************)
(* config.ts: two invocations of the tool on one store.  Each mutation is  *)
(* const config = await loadConfig(); a change of config; saveConfig of    *)
(* the whole config.  An invocation holds the config it loaded and the     *)
(* mutation it performs, and keeps both after it has saved.                *)
(***************************************************************************)
Invocations == {1, 2}

(* addSelection of an agent or a command of o/r, stageMcpServer of an     *)
(* entry of its bundle                                                     *)
Mutations ==
  {[op |-> "addSelection", asset |-> a, serverName |-> <<>>] : a \in {AgentC, CommandD}}
    \cup {[op |-> "stageMcpServer", asset |-> McpBundle, serverName |-> n] : n \in {Str.s, Str.t}}

(* what the invocation writes to the store when it saves: the config it   *)
(* loaded with its change; stageMcpServer does not save when the entry is  *)
(* in the config it loaded.  The mutant applies the change to the store    *)
(* as it is at the save.                                                   *)
savedDocument_Reloaded(store, inv) ==
  LET alias == generateNewAlias(Str.o, Str.r)
  IN IF inv.op = "addSelection"
       THEN [store EXCEPT !.selections =
               addSelection(@, [repoAlias |-> alias, assetPath |-> inv.asset.path,
                                type |-> inv.asset.type,
                                linkedPath |-> linkTargetPath(alias, inv.asset)])]
       ELSE [store EXCEPT !.stagedMcp =
               stageMcpServer(@, alias, inv.asset.path, inv.serverName)]

savedDocument(store, inv) ==
  LET alias == generateNewAlias(Str.o, Str.r)
      config == inv.config
  IN IF inv.op = "addSelection"
       THEN [config EXCEPT !.selections =
               addSelection(@, [repoAlias |-> alias, assetPath |-> inv.asset.path,
                                type |-> inv.asset.type,
                                linkedPath |-> linkTargetPath(alias, inv.asset)])]
     ELSE IF \E x \in Range(config.stagedMcp) :
               SameStaged(x, alias, inv.asset.path, inv.serverName)
       THEN store
     ELSE [config EXCEPT !.stagedMcp =
             stageMcpServer(@, alias, inv.asset.path, inv.serverName)]

(* an invocation starts a mutation: loadConfig *)
InvocationLoads ==
  \E p \in Invocations, m \in Mutations :
    /\ invocations[p].pc = "idle"
    /\ invocations' = [invocations EXCEPT ![p] =
         [pc |-> "loaded", op |-> m.op, asset |-> m.asset, serverName |-> m.serverName,
          config |-> loadConfigResult(Config, fs, {}).config]]
    /\ UNCHANGED <<repositories, selections, stagedMcp, fs>>

(* it changes the config it holds and saves it *)
InvocationSaves ==
  \E p \in Invocations :
    LET document == savedDocument(Config, invocations[p])
    IN /\ invocations[p].pc = "loaded"
       /\ repositories' = document.repositories
       /\ selections' = document.selections
       /\ stagedMcp' = document.stagedMcp
       /\ fs' = IF /\ invocations[p].op = "stageMcpServer"
                     /\ \E x \in Range(invocations[p].config.stagedMcp) :
                          x.serverName = invocations[p].serverName
                  THEN fs ELSE saveConfig(fs)
       /\ invocations' = [invocations EXCEPT ![p].pc = "done"]

(***************************************************************************)
(* detection.ts                                                            *)
(***************************************************************************)

RECURSIVE setToSeq(_)
setToSeq(S) ==
  IF S = {} THEN <<>>
  ELSE LET x == CHOOSE y \in S : TRUE IN <<x>> \o setToSeq(S \ {x})

(* /\.md$/i *)
isMdName(name) == EndsWith(toLowerCase(name), Str.dotMd)

(* /mcp.*\.json$/i *)
isMcpJsonName(name) ==
  LET l == toLowerCase(name)
  IN /\ EndsWith(l, Str.dotJson)
     /\ \E i \in 1..Len(l) : i + 2 <= Len(l) - Len(Str.dotJson) /\ SubSeq(l, i, i + 2) = Str.mcp

(* findFiles without its pattern: the regular files below dir that are    *)
(* reached through directories whose names neither start with a dot nor   *)
(* are node_modules, hidden files left out; in the order of readdir        *)
findFiles(f, dir) ==
  IF ~existsSync(f, dir) THEN {}
  ELSE {q \in DOMAIN f :
          /\ IsPrefix(dir, q) /\ Len(q) > Len(dir)
          /\ f[q].kind = "file"
          /\ \A k \in (Len(dir) + 1)..Len(q) : q[k][1] # "." /\ q[k] # Str.nodeModules
          /\ \A k \in (Len(dir) + 1)..(Len(q) - 1) :
               SubSeq(q, 1, k) \in DOMAIN f /\ f[SubSeq(q, 1, k)].kind = "dir"}

hasAgentFrontmatter(f, filePath) ==
  LET frontmatter == toLowerCase(f[filePath].frontmatter)
  IN /\ f[filePath].frontmatter # <<>>
     /\ includes(frontmatter, Str.tools) \/ includes(frontmatter, Str.model)

isMcpConfig(f, filePath) ==
  /\ f[filePath].kind = "file"
  /\ f[filePath].parses
  /\ "mcpServers" \in f[filePath].keys

relative(repoPath, filePath) == SubSeq(filePath, Len(repoPath) + 1, Len(filePath))

createAsset(repoPath, filePath, type) ==
  [type |-> type, path |-> relative(repoPath, filePath),
   name |-> basename(filePath, extname(filePath[Len(filePath)]))]

(* the assets made of a set of files, as an array *)
createAssets(repoPath, files, type) ==
  LET list == setToSeq(files)
  IN [i \in 1..Len(list) |-> createAsset(repoPath, list[i], type)]

detectAgents(f, repoPath) ==
  LET agentsDir == join(repoPath, <<Str.agents>>)
      inAgents == {q \in findFiles(f, agentsDir) : isMdName(q[Len(q)])}
      rootMdFiles == {q \in findFiles(f, repoPath) : isMdName(q[Len(q)])}
      withFrontmatter == {q \in rootMdFiles : ~(\E k \in 1..(Len(q) - 1) : q[k] = Str.agents) /\ hasAgentFrontmatter(f, q)}
  IN createAssets(repoPath, inAgents, "agent") \o createAssets(repoPath, withFrontmatter, "agent")

detectSkills(f, repoPath) ==
  LET skillsDir == join(repoPath, <<Str.skills>>)
      entries == {q \in DOMAIN f : dirname(q) = skillsDir /\ f[q].kind = "dir"}
      skillFiles == {join(q, <<Str.skillMd>>) : q \in {e \in entries : existsSync(f, join(e, <<Str.skillMd>>))}}
      list == setToSeq(skillFiles)
  IN IF ~existsSync(f, skillsDir) THEN <<>>
     ELSE [i \in 1..Len(list) |->
             [type |-> "skill", path |-> relative(repoPath, list[i]),
              name |-> list[i][Len(list[i]) - 1]]]

detectCommands(f, repoPath) ==
  LET commandsDir == join(repoPath, <<Str.commands>>)
  IN createAssets(repoPath, {q \in findFiles(f, commandsDir) : isMdName(q[Len(q)])}, "command")

detectMcp(f, repoPath) ==
  LET jsonFiles == {q \in findFiles(f, repoPath) : isMcpJsonName(q[Len(q)])}
      found == {q \in jsonFiles : isMcpConfig(f, q)}
      commonPaths == {<<Str.mcpJson>>, <<Str.dotMcpJson>>, <<Str.config, Str.mcpJson>>}
      common == {join(repoPath, c) : c \in {c \in commonPaths :
                    /\ existsSync(f, join(repoPath, c))
                    /\ isMcpConfig(f, join(repoPath, c))
                    /\ join(repoPath, c) \notin found}}
  IN createAssets(repoPath, found, "mcp") \o createAssets(repoPath, common, "mcp")

detectAssets(f, repoPath) ==
  [agents |-> detectAgents(f, repoPath), skills |-> detectSkills(f, repoPath),
   commands |-> detectCommands(f, repoPath), mcp |-> detectMcp(f, repoPath)]

flattenAssets(result) == result.agents \o result.skills \o result.commands \o result.mcp

(* The directory detection runs on, and the files that are put in it and   *)
(* taken out of it: the four files of the documented layout and a README,  *)
(* markdown with and without frontmatter, JSON with and without the key    *)
(* mcpServers, and text that is not JSON.                                   *)

MdEntry(frontmatter) == [FileEntry EXCEPT !.frontmatter = frontmatter]


DetectRoot == join(getReposDir, <<generateAlias(<<>>, Str.o, Str.r)>>)

TreeFiles ==
  {<<<<Str.agents, Str.aMd>>, FileEntry>>, <<<<Str.agents, Str.aMd>>, MdEntry(Str.model)>>,
   <<<<Str.skills, Str.x, Str.skillMd>>, FileEntry>>, <<<<Str.skills, Str.x, Str.skillMd>>, MdEntry(Str.description)>>,
   <<<<Str.skills, Str.x, Str.skillMd>>, MdEntry(Str.allowedTools)>>,
   <<<<Str.commands, Str.cMd>>, FileEntry>>, <<<<Str.commands, Str.cMd>>, MdEntry(Str.model)>>,
   <<<<Str.mcpJson>>, JsonEntry({<<Str.s, Str.r>>})>>, <<<<Str.mcpJson>>, [FileEntry EXCEPT !.parses = TRUE, !.keys = {}]>>,
   <<<<Str.mcpJson>>, FileEntry>>,
   <<<<Str.readmeMd>>, FileEntry>>, <<<<Str.readmeMd>>, MdEntry(Str.tools)>>}

WriteTreeFile ==
  \E t \in TreeFiles :
    /\ fs' = writeFile(mkdir(fs, dirname(join(DetectRoot, t[1]))), join(DetectRoot, t[1]), t[2])
    /\ UNCHANGED <<repositories, selections, stagedMcp, invocations>>

RemoveTreeFile ==
  \E t \in TreeFiles :
    /\ join(DetectRoot, t[1]) \in DOMAIN fs
    /\ fs' = unlink(fs, join(DetectRoot, t[1]))
    /\ UNCHANGED <<repositories, selections, stagedMcp, invocations>>

(***************************************************************************)
(* Specification.                                                          *)
(***************************************************************************)
(* The state of an installation in use: the cache root and the link       *)
(* target roots exist, nothing is registered.                              *)
Init ==
  /\ repositories = <<>>
  /\ selections = <<>>
  /\ stagedMcp = <<>>
  /\ fs = mkdir(mkdir(mkdir(mkdir([p \in {} |-> DirEntry], getReposDir),
                 getAgentsDir), getSkillsDir), getCommandsDir)
  /\ invocations = [p \in Invocations |->
                      [pc |-> "idle", op |-> "none", asset |-> McpBundle,
                       serverName |-> <<>>, config |-> createDefaultConfig]]

(* the link manager *)
Next ==
  \/ CloneRepository
  \/ RemoveRepo
  \/ LinkAsset
  \/ Diagnose
  \/ Cure
  \/ UnlinkAsset
  \/ DeleteSourceFile
  \/ DeleteLink

Spec == Init /\ [][Next]_vars

(* the link manager with link paths that cannot be unlinked *)
SpecCure ==
  Init /\ [][\/ Next
            \/ ReplaceLinkByDirectory]_vars

(* the link manager with skill directories that hold the user's files *)
SpecSkill ==
  Init /\ [][\/ CloneRepository
            \/ LinkAsset
            \/ UnlinkAsset
            \/ Cure
            \/ DeleteSourceFile
            \/ AddFileToSkillDir
            \/ ReplaceLinkByFile]_vars

(* the batches of the command line *)
SpecBatch ==
  Init /\ [][\/ CloneRepository
            \/ UseAssets
            \/ ReplaceLinkByDirectory
            \/ UnuseAll
            \/ StageMcpServers]_vars

(* the link manager and the store's addSelection *)
SpecSel ==
  Init /\ [][\/ CloneRepository
            \/ RemoveRepo
            \/ LinkAsset
            \/ Cure
            \/ UnlinkAsset
            \/ AddSelection]_vars

(* the store file *)
SpecFile ==
  Init /\ [][\/ WriteStoreFile
            \/ CorruptStoreFile
            \/ DeleteStoreFile
            \/ LoadStoreFile
            \/ StageOnStoreFile]_vars

(* asset detection on a directory that changes *)
SpecDetect ==
  Init /\ [][\/ WriteTreeFile
            \/ RemoveTreeFile]_vars

(* the registry store *)
SpecStore ==
  Init /\ [][\/ RegisterSource
            \/ RemoveSource
            \/ AddRepository
            \/ UpdateRepository]_vars

(* a store of the version before owner.repo, loaded by this one *)
SpecLoad ==
  Init /\ [][\/ LegacyRegister
            \/ LegacyLink
            \/ LegacyStage
            \/ LoadConfig]_vars

(* two invocations, one mutation each *)
SpecInvocations ==
  Init /\ [][\/ InvocationLoads
            \/ InvocationSaves]_vars

(* the config merge stager *)
SpecMcp ==
  Init /\ [][\/ CloneRepository
            \/ RemoveRepo
            \/ StageMcpServers
            \/ UnstageMcpServers
            \/ SyncMcp
            \/ DeleteBundle
            \/ CorruptBundle]_vars

(***************************************************************************)
(* Shorthands of the properties.                                           *)
(***************************************************************************)
Registered(alias) == getRepository(repositories, alias) # <<>>

(* the file a Selection's symlink is to point at *)
SourcePathOf(repos, alias, assetPath) ==
  join(getRepository(repos, alias)[1].localPath, assetPath)

HasKey(sels, alias, path) == {i \in 1..Len(sels) : SameKey(sels[i], alias, path)}

SelectionsOf(healthList) == {h.selection : h \in Range(healthList)}

(***************************************************************************)
(* C1: after removeRepo of a registered Source, no symlink that link      *)
(* created for one of that Source's Selections remains on disk: nothing   *)
(* is left at the link path of any Selection the Source had.               *)
(***************************************************************************)
C1_RemoveRepoRemovesSymlinks ==
  [][\A alias \in Aliases :
       (Registered(alias) /\ removeRepo(alias)) =>
         \A s \in Range(getSelectionsForRepo(selections, alias)) :
           s.linkedPath \notin DOMAIN fs']_vars

(***************************************************************************)
(* C2: a successful link(alias, asset) leaves a symlink at                 *)
(* <kind root>/<alias>-<basename> (agent, command) or at                   *)
(* <skill root>/<alias>-<display name>/SKILL.md (skill), whose target is   *)
(* <source directory>/<asset path>, and the Selection it returns           *)
(* (alias, asset path, kind, that link path) is in the registry.           *)
(***************************************************************************)
C2_KindRoot(type) ==
  IF type = "agent" THEN <<Str.dotClaude, Str.agents>>
  ELSE IF type = "command" THEN <<Str.dotClaude, Str.commands>>
  ELSE <<Str.dotClaude, Str.skills>>

C2_ExpectedLinkPath(alias, asset) ==
  IF asset.type = "skill"
    THEN C2_KindRoot("skill") \o <<alias \o <<"-">> \o asset.name>> \o <<Str.skillMd>>
    ELSE C2_KindRoot(asset.type) \o <<alias \o <<"-">> \o asset.path[Len(asset.path)]>>

C2_LinkCreatesNamespacedSymlink ==
  \A alias \in Aliases, asset \in Assets :
    LET res == linkAssetResult(repositories, selections, fs, alias, asset)
        linkPath == C2_ExpectedLinkPath(alias, asset)
        selection == [repoAlias |-> alias, assetPath |-> asset.path,
                      type |-> asset.type, linkedPath |-> linkPath]
    IN res.status = "ok" =>
         /\ linkPath \in DOMAIN res.fs
         /\ res.fs[linkPath].kind = "symlink"
         /\ res.fs[linkPath].target = SourcePathOf(repositories, alias, asset.path)
         /\ res.sel = <<selection>>
         /\ selection \in Range(res.selections)

(* a skill and an agent or command are linked, each with its symlink *)
C2_Witness ==
  \E s, t \in Range(selections) :
    /\ s.type = "skill" /\ t.type \in {"agent", "command"}
    /\ isSymbolicLink(fs, s.linkedPath) /\ isSymbolicLink(fs, t.linkedPath)
    /\ fs[s.linkedPath].target = SourcePathOf(repositories, s.repoAlias, s.assetPath)
    /\ fs[t.linkedPath].target = SourcePathOf(repositories, t.repoAlias, t.assetPath)

(***************************************************************************)
(* C3: linking the same asset of the same Source twice in a row leaves     *)
(* exactly one Selection with that key and one symlink at the destination: *)
(* the second call succeeds and replaces the link and the record of the    *)
(* first, so the registry and the link tree are as after the first call.   *)
(***************************************************************************)
C3_Symlinks(f) == {p \in DOMAIN f : f[p].kind = "symlink"}

C3_LinkTwiceIsLinkOnce ==
  \A alias \in Aliases, asset \in Assets :
    LET first == linkAssetResult(repositories, selections, fs, alias, asset)
        second == linkAssetResult(repositories, first.selections, first.fs, alias, asset)
    IN first.status = "ok" =>
         /\ second.status = "ok"
         /\ Cardinality(HasKey(second.selections, alias, asset.path)) = 1
         /\ Len(second.selections) = Len(first.selections)
         /\ C3_Symlinks(second.fs) = C3_Symlinks(first.fs)
         /\ second.fs[second.sel[1].linkedPath] = first.fs[first.sel[1].linkedPath]
         /\ second.sel = first.sel

(* an asset is linked, its file is still there: link can be called again *)
C3_Witness ==
  \E alias \in Aliases, asset \in Assets :
    /\ HasKey(selections, alias, asset.path) # {}
    /\ isSymbolicLink(fs, linkTargetPath(alias, asset))
    /\ linkAssetResult(repositories, selections, fs, alias, asset).status = "ok"

(***************************************************************************)
(* C4: right after a successful link, diagnose lists the new Selection in  *)
(* healthy and not in broken.                                              *)
(***************************************************************************)
C4_LinkedIsHealthy ==
  \A alias \in Aliases, asset \in Assets :
    LET res == linkAssetResult(repositories, selections, fs, alias, asset)
        diag == diagnose(repositories, res.selections, res.fs)
    IN res.status = "ok" =>
         /\ res.sel[1] \in SelectionsOf(diag.healthy)
         /\ res.sel[1] \notin SelectionsOf(diag.broken)

(* a linked Selection that diagnose classifies as healthy *)
C4_Witness ==
  /\ selections # <<>>
  /\ \E s \in SelectionsOf(diagnose(repositories, selections, fs).healthy) :
       /\ isSymbolicLink(fs, s.linkedPath)
       /\ fs[s.linkedPath].target = SourcePathOf(repositories, s.repoAlias, s.assetPath)

(***************************************************************************)
(* C5: every Selection that diagnose classifies as healthy has at its      *)
(* link path a symlink whose target is the directory of its Source joined  *)
(* with its asset path.                                                    *)
(***************************************************************************)
C5_HealthyPointsAtOwnAsset ==
  \A s \in SelectionsOf(diagnose(repositories, selections, fs).healthy) :
    /\ isSymbolicLink(fs, s.linkedPath)
    /\ Registered(s.repoAlias)
    /\ fs[s.linkedPath].target = SourcePathOf(repositories, s.repoAlias, s.assetPath)

(***************************************************************************)
(* C6: when the source file of a linked Selection has been deleted and the *)
(* symlink link created is still in place, diagnose classifies the         *)
(* Selection as broken with reason missing_source.                         *)
(***************************************************************************)
C6_DeletedSourceIsMissingSource ==
  \A i \in 1..Len(selections) :
    LET s == selections[i]
    IN (/\ s.type # "mcp"
        /\ Registered(s.repoAlias)
        /\ isSymbolicLink(fs, s.linkedPath)
        /\ fs[s.linkedPath].target = SourcePathOf(repositories, s.repoAlias, s.assetPath)
        /\ SourcePathOf(repositories, s.repoAlias, s.assetPath) \notin DOMAIN fs)
       => \E b \in Range(diagnose(repositories, selections, fs).broken) :
            b.selection = s /\ b.issue = "missing_source"

(***************************************************************************)
(* C7: unlink(alias, assetPath) returns true exactly when a Selection with *)
(* that key existed; then no Selection has that key afterwards and nothing *)
(* remains at its former link path; otherwise it returns false and the     *)
(* registry and the filesystem are unchanged.                              *)
(***************************************************************************)
C7_UnlinkRemovesRecordAndLink ==
  \A alias \in Aliases, asset \in Assets :
    LET res == unlinkAssetResult(selections, fs, alias, asset.path)
        had == HasKey(selections, alias, asset.path)
    IN /\ (res.status = "true") <=> (had # {})
       /\ had # {} =>
            /\ HasKey(res.selections, alias, asset.path) = {}
            /\ \A i \in had : selections[i].linkedPath \notin DOMAIN res.fs
       /\ had = {} =>
            /\ res.status = "false"
            /\ res.selections = selections /\ res.fs = fs

(***************************************************************************)
(* C8: when N of the M Selections are broken, cure reports fixed = N,      *)
(* leaves the M-N healthy Selections and their symlinks untouched, and a   *)
(* diagnose right after it reports no broken entry.                        *)
(***************************************************************************)
C8_CureFixesExactlyTheBroken ==
  [][Cure =>
       LET before == diagnose(repositories, selections, fs)
           res == cureResult(repositories, selections, fs)
       IN /\ res.fixed = Len(before.broken)
          /\ \A s \in SelectionsOf(before.healthy) :
               /\ s \in Range(selections')
               /\ s.linkedPath \in DOMAIN fs'
               /\ fs'[s.linkedPath] = fs[s.linkedPath]
          /\ diagnose(repositories', selections', fs').broken = <<>>]_vars

(***************************************************************************)
(* C9: when cure returns without errors, every Selection that was broken   *)
(* when it started has its record deleted and nothing, dangling symlink    *)
(* included, at its link path; the dedicated directory of a skill is gone. *)
(***************************************************************************)
C9_CureLeavesNoSymlink ==
  [][Cure =>
       LET before == diagnose(repositories, selections, fs)
           res == cureResult(repositories, selections, fs)
       IN res.errors = <<>> =>
            \A s \in SelectionsOf(before.broken) :
              /\ s \notin Range(selections')
              /\ s.linkedPath \notin DOMAIN fs'
              /\ s.type = "skill" => dirname(s.linkedPath) \notin DOMAIN fs']_vars

(***************************************************************************)
(* C10: sync clears the Staged Entries if and only if the write of the     *)
(* merged output file succeeded: after a successful write the staged list  *)
(* is empty and the output file holds the merged servers, after a failed   *)
(* write the staged list is exactly what it was before the call.           *)
(***************************************************************************)
C10_OutputOf(f) ==
  IF getMcpConfigPath \in DOMAIN f THEN <<f[getMcpConfigPath]>> ELSE <<>>

C10_SyncClearsIffWritten ==
  \A writeOk \in BOOLEAN :
    LET res == syncMcpResult(repositories, stagedMcp, fs, writeOk)
    IN /\ writeOk =>
            /\ res.stagedMcp = <<>>
            /\ C10_OutputOf(res.fs) = <<JsonEntry(buildMcpConfig(repositories, stagedMcp, fs))>>
       /\ ~writeOk => res.stagedMcp = stagedMcp

(* a sync has written entries to the output file and cleared the staged   *)
(* list, and entries are staged again: the next sync clears or keeps them *)
C10_Witness ==
  /\ C10_OutputOf(fs) # <<>>
  /\ C10_OutputOf(fs)[1].servers # {}
  /\ stagedMcp # <<>>
  /\ buildMcpConfig(repositories, stagedMcp, fs) # C10_OutputOf(fs)[1].servers

(***************************************************************************)
(* C11: the merged config holds exactly the names of the Staged Entries    *)
(* whose Source is registered, whose bundle exists and parses and has the  *)
(* name among its mcpServers; each name is mapped to the value its bundle  *)
(* gives it (that of the last such Staged Entry when several carry the     *)
(* name); a name of a bundle that is not staged is not in the result.      *)
(***************************************************************************)
C11_Merges(i) ==
  LET e == stagedMcp[i]
      p == SourcePathOf(repositories, e.repoAlias, e.assetPath)
  IN /\ Registered(e.repoAlias)
     /\ existsSync(fs, p)
     /\ fs[p].parses
     /\ \E x \in fs[p].servers : x[1] = e.serverName

C11_ValueOf(i) ==
  LET e == stagedMcp[i]
      p == SourcePathOf(repositories, e.repoAlias, e.assetPath)
  IN (CHOOSE x \in fs[p].servers : x[1] = e.serverName)[2]

C12_StagedTriplesUnique ==
  /\ \A i, j \in 1..Len(stagedMcp) :
       SameStaged(stagedMcp[i], stagedMcp[j].repoAlias, stagedMcp[j].assetPath,
                  stagedMcp[j].serverName) => i = j
  /\ \A e \in Range(stagedMcp) :
       /\ stageMcpServer(stagedMcp, e.repoAlias, e.assetPath, e.serverName) = stagedMcp
       /\ \A names \in NameLists :
            (\A k \in 1..Len(names) :
               \E d \in Range(stagedMcp) :
                 SameStaged(d, e.repoAlias, e.assetPath, names[k]))
            => stageAll(stagedMcp, e.repoAlias, e.assetPath, names) = stagedMcp

(* two entries of one bundle are staged: each can be staged again *)
C12_Witness ==
  /\ Len(stagedMcp) = 2
  /\ stagedMcp[1].repoAlias = stagedMcp[2].repoAlias
  /\ stagedMcp[1].assetPath = stagedMcp[2].assetPath
  /\ stagedMcp[1].serverName # stagedMcp[2].serverName

(***************************************************************************)
(* C14: every Selection and every Staged Entry carries the alias of a      *)
(* Source that is in the registry.                                         *)
(***************************************************************************)
C14_RecordsReferenceRegisteredSource ==
  /\ \A s \in Range(selections) : Registered(s.repoAlias)
  /\ \A e \in Range(stagedMcp) : Registered(e.repoAlias)

C17_Fails(link) ==
  /\ link.selection.linkedPath \in DOMAIN fs
  /\ fs[link.selection.linkedPath].kind = "dir"

C17_CureHandlesEveryBrokenEntry ==
  LET broken == diagnose(repositories, selections, fs).broken
      res == cureResult(repositories, selections, fs)
      failing == {i \in 1..Len(broken) : C17_Fails(broken[i])}
  IN /\ res.fixed + Len(res.errors) = Len(broken)
     /\ Len(res.errors) = Cardinality(failing)
     /\ \A i \in 1..Len(broken) :
          (i \in failing) <=> (broken[i].selection \in Range(res.selections))

(* the first broken entry fails and the second is fixed *)
C17_Witness ==
  LET broken == diagnose(repositories, selections, fs).broken
  IN /\ Len(broken) = 2
     /\ C17_Fails(broken[1])
     /\ ~C17_Fails(broken[2])
     /\ cureResult(repositories, selections, fs).fixed = 1

(***************************************************************************)
(* C13: no two Sources in the registry have the same alias.                *)
(***************************************************************************)
C13_AliasesUnique ==
  \A i, j \in 1..Len(repositories) :
    repositories[i].alias = repositories[j].alias => i = j

(***************************************************************************)
(* C15: removeRepository(alias) for a registered alias returns the removed *)
(* Source and leaves no Source, Selection or Staged Entry of that alias,   *)
(* while the records of every other alias stay as they were, in order; for *)
(* an alias that is not registered it returns null and changes nothing.    *)
(***************************************************************************)
C15_RemoveSourceCascadesAndFrames ==
  \A alias \in {r.alias : r \in Range(repositories)} \cup Aliases :
    LET res == removeRepository(Config, alias)
        ret == removeRepositoryReturn(Config, alias)
        others(seq, key(_)) == SelectSeq(seq, LAMBDA x : key(x) # alias)
    IN IF \E r \in Range(repositories) : r.alias = alias
         THEN /\ ret # <<>> /\ ret[1] \in Range(repositories) /\ ret[1].alias = alias
              /\ \A r \in Range(res.repositories) : r.alias # alias
              /\ \A x \in Range(res.selections) : x.repoAlias # alias
              /\ \A x \in Range(res.stagedMcp) : x.repoAlias # alias
              /\ res.repositories = others(repositories, LAMBDA r : r.alias)
              /\ res.selections = others(selections, LAMBDA x : x.repoAlias)
              /\ res.stagedMcp = others(stagedMcp, LAMBDA x : x.repoAlias)
         ELSE ret = <<>> /\ res = Config

(***************************************************************************)
(* C18: generateAlias(owner, repo) returns the lower-cased owner.repo when *)
(* no registered Source has that alias, and otherwise that base followed   *)
(* by the smallest n >= 2 for which base+n is not a registered alias; in   *)
(* both cases the alias it returns is not registered.                       *)
(***************************************************************************)
C18_Base(id) == toLowerCase(id[1]) \o <<".">> \o toLowerCase(id[2])

C18_Registered == {r.alias : r \in Range(repositories)}

C19_Pairs ==
  {p \in StoreIdentities \X StoreIdentities :
     /\ p[1] # p[2]
     /\ C18_Base(p[1]) = C18_Base(p[2])
     /\ findExistingRepository(repositories, p[1][1], p[1][2]) = <<>>
     /\ findExistingRepository(repositories, p[2][1], p[2][2]) = <<>>
     /\ C18_Base(p[1]) \notin C18_Registered
     /\ (C18_Base(p[1]) \o <<"2">>) \notin C18_Registered
     /\ ~existsSync(fs, join(getReposDir, <<C18_Base(p[1])>>))
     /\ ~existsSync(fs, join(getReposDir, <<C18_Base(p[1]) \o <<"2">>>>))}

C19_First(p) == cloneRepositoryResult(repositories, fs, p[1][1], p[1][2])

C19_Second(p) == cloneRepositoryResult(C19_First(p).repositories, C19_First(p).fs, p[2][1], p[2][2])

C19_SameSource(p) ==
  /\ toLowerCase(p[1][1]) = toLowerCase(p[2][1])
  /\ toLowerCase(p[1][2]) = toLowerCase(p[2][2])

C19_BothRegistered(p) ==
  LET n == Len(repositories)
      final == C19_Second(p).repositories
  IN /\ C19_First(p).status = "ok" /\ C19_First(p).alias = C18_Base(p[1])
     /\ C19_Second(p).status = "ok" /\ C19_Second(p).alias = C18_Base(p[1]) \o <<"2">>
     /\ Len(final) = n + 2
     /\ SubSeq(final, 1, n) = repositories
     /\ final[n + 1].alias = C18_Base(p[1])
     /\ final[n + 1].owner = p[1][1] /\ final[n + 1].repo = p[1][2]
     /\ final[n + 2].alias = C18_Base(p[1]) \o <<"2">>
     /\ final[n + 2].owner = p[2][1] /\ final[n + 2].repo = p[2][2]

(* C19 as stated: both registrations succeed, the first-registered Source  *)
(* has the alias base and the second the alias base2.                       *)
C19_BothSucceedWithBaseAndBase2 ==
  \A p \in C19_Pairs : C19_BothRegistered(p)

(* C19, amended: that holds when the two sources differ in owner or name   *)
(* compared without case; a second registration of the same owner and name *)
(* in another spelling is rejected as already registered and changes        *)
(* nothing.                                                                 *)
C19_DistinctSourcesGetBaseAndBase2 ==
  \A p \in C19_Pairs :
    IF C19_SameSource(p)
      THEN /\ C19_First(p).status = "ok" /\ C19_First(p).alias = C18_Base(p[1])
           /\ C19_Second(p).status = "AlreadyRegistered"
           /\ C19_Second(p).repositories = C19_First(p).repositories
           /\ C19_Second(p).fs = C19_First(p).fs
      ELSE C19_BothRegistered(p)

(* o/r.q and then o.r/q have been registered: o.r.q and o.r.q2 *)
C19_Witness ==
  \E i, j \in 1..Len(repositories) :
    /\ i < j
    /\ repositories[i].owner = Str.o /\ repositories[i].repo = Str.rDotQ
    /\ repositories[i].alias = C18_Base(<<Str.o, Str.rDotQ>>)
    /\ repositories[j].owner = Str.oDotR /\ repositories[j].repo = Str.q
    /\ repositories[j].alias = C18_Base(<<Str.o, Str.rDotQ>>) \o <<"2">>
    /\ existsSync(fs, repositories[i].localPath)
    /\ existsSync(fs, repositories[j].localPath)

(***************************************************************************)
(* C20: a load of a store that holds a Source under a legacy short alias   *)
(* gives that Source an alias of the form owner.repo (numbered when that   *)
(* alias is taken); in the registry the load returns and in the one it     *)
(* persists, every Selection and Staged Entry that was keyed to the old    *)
(* alias is keyed to the new one and none carries the old alias, whether   *)
(* or not the source directories could be renamed.                          *)
(***************************************************************************)
C20_Legacy(i) ==
  /\ isLegacyAliasFormat(repositories[i].alias)
  /\ withRegistryType(repositories[i]).registryType = "github"

C20_OwnerRepoForm(alias, owner, repo) ==
  LET base == toLowerCase(owner) \o <<".">> \o toLowerCase(repo)
  IN \/ alias = base
     \/ \E n \in 2..(Len(repositories) + 1) : alias = base \o numberToString(n)

C20_Rekeyed(cfg, i) ==
  LET old == repositories[i].alias
      new == cfg.repositories[i].alias
  IN /\ C20_OwnerRepoForm(new, repositories[i].owner, repositories[i].repo)
     /\ ~isLegacyAliasFormat(new)
     /\ Len(cfg.selections) = Len(selections)
     /\ Len(cfg.stagedMcp) = Len(stagedMcp)
     /\ \A j \in 1..Len(selections) :
          /\ selections[j].repoAlias = old => cfg.selections[j].repoAlias = new
          /\ cfg.selections[j].repoAlias # old
          /\ cfg.selections[j].assetPath = selections[j].assetPath
     /\ \A j \in 1..Len(stagedMcp) :
          /\ stagedMcp[j].repoAlias = old => cfg.stagedMcp[j].repoAlias = new
          /\ cfg.stagedMcp[j].repoAlias # old
          /\ cfg.stagedMcp[j].serverName = stagedMcp[j].serverName

C21_Records ==
  {[alias |-> generateNewAlias(id[1], id[2]), registryType |-> "github",
    localPath |-> join(getReposDir, <<generateNewAlias(id[1], id[2])>>),
    owner |-> id[1], repo |-> id[2]] : id \in StoreIdentities \cup {<<Str.o, Str.q>>, <<Str.upperO, Str.q>>}}

C21_AddSourceUpserts ==
  \A r \in C21_Records :
    LET res == addRepository(repositories, r)
        present == \E x \in Range(repositories) : x.alias = r.alias
    IN /\ Cardinality({i \in 1..Len(res) : res[i].alias = r.alias}) = 1
       /\ getRepository(res, r.alias) = <<r>>
       /\ present => /\ Len(res) = Len(repositories)
                     /\ \A i \in 1..Len(res) : res[i] = r \/ res[i] = repositories[i]
       /\ ~present => res = Append(repositories, r)

(***************************************************************************)
(* C22: through addSelection, link, unlink, cure and the removal of a      *)
(* source there is at most one Selection per (alias, asset path), and      *)
(* addSelection of a record whose key is present replaces that record      *)
(* where it is and leaves every other record as it was.                     *)
(***************************************************************************)
C22_KeysUnique(sels) ==
  \A i, j \in 1..Len(sels) :
    SameKey(sels[i], sels[j].repoAlias, sels[j].assetPath) => i = j

C22_Holders(sels, selection) ==
  {i \in 1..Len(sels) : SameKey(sels[i], selection.repoAlias, selection.assetPath)}

C22_OneSelectionPerKey ==
  /\ C22_KeysUnique(selections)
  /\ \A selection \in SelectionInputs :
       LET res == addSelection(selections, selection)
       IN /\ C22_KeysUnique(res)
          /\ \A i \in C22_Holders(selections, selection) :
               res = [selections EXCEPT ![i] = selection]
          /\ C22_Holders(selections, selection) = {} => res = Append(selections, selection)

(* the record of agents/c.md stands first with the link path "new", which  *)
(* only addSelection gives it, and another record follows it                *)
C22_Witness ==
  /\ Len(selections) = 2
  /\ selections[1].assetPath = AgentC.path
  /\ selections[1].linkedPath = <<Str.new>>
  /\ selections[2].type # "agent"
  /\ \E selection \in SelectionInputs :
       /\ C22_Holders(selections, selection) = {1}
       /\ selection # selections[1]

(***************************************************************************)
(* C23: no Selection in the registry has the kind mcp.                     *)
(***************************************************************************)
C23_NoMcpSelection ==
  \A s \in Range(selections) : s.type # "mcp"

(***************************************************************************)
(* C24: loadConfig always returns: when the store file is missing or is    *)
(* not a readable JSON document it returns empty sources, selections and   *)
(* staged entries, and a list missing from a valid document is empty in    *)
(* the config it returns while the lists the document has are returned.    *)
(***************************************************************************)
C24_Missing == getConfigPath \notin DOMAIN fs

C24_Valid ==
  /\ getConfigPath \in DOMAIN fs
  /\ fs[getConfigPath].kind = "file"
  /\ fs[getConfigPath].parses

C24_NothingToMigrate ==
  \A r \in Range(repositories) : ~isLegacyAliasFormat(r.alias)

C24_LoadNeverFails ==
  \A renameFails \in SUBSET (1..Len(repositories)), writeOk \in BOOLEAN :
    LET res == loadConfig(Config, fs, renameFails, writeOk)
        keys == fs[getConfigPath].keys
    IN /\ res.status = "ok"
       /\ ~C24_Valid =>
            /\ res.config.repositories = <<>>
            /\ res.config.selections = <<>>
            /\ res.config.stagedMcp = <<>>
       /\ C24_Valid =>
            /\ "repositories" \notin keys => res.config.repositories = <<>>
            /\ "selections" \notin keys => res.config.selections = <<>>
            /\ "stagedMcp" \notin keys => res.config.stagedMcp = <<>>
       /\ C24_Valid /\ C24_NothingToMigrate =>
            /\ "repositories" \in keys =>
                 /\ Len(res.config.repositories) = Len(repositories)
                 /\ \A i \in 1..Len(repositories) :
                      res.config.repositories[i].alias = repositories[i].alias
            /\ "selections" \in keys => res.config.selections = selections
            /\ "stagedMcp" \in keys => res.config.stagedMcp = stagedMcp

(* a valid document that has its sources and selections and no stagedMcp   *)
(* key: the load returns them with an empty staged list                     *)
C24_Witness ==
  /\ C24_Valid
  /\ fs[getConfigPath].keys = {"repositories", "selections"}
  /\ C24_NothingToMigrate
  /\ loadConfig(Config, fs, {}, TRUE).config.repositories # <<>>
  /\ loadConfig(Config, fs, {}, TRUE).config.selections # <<>>
  /\ loadConfig(Config, fs, {}, TRUE).config.stagedMcp = <<>>

(***************************************************************************)
(* C25: for a directory holding agents/a.md, skills/x/SKILL.md,            *)
(* commands/c.md and an mcp.json with the key mcpServers, and nothing      *)
(* else, detectAssets returns one agent named a, one skill named x, one    *)
(* command named c and one mcp asset, and flattenAssets returns those      *)
(* four.                                                                    *)
(***************************************************************************)
C25_Files ==
  {relative(DetectRoot, q) : q \in {q \in DOMAIN fs :
     IsPrefix(DetectRoot, q) /\ Len(q) > Len(DetectRoot) /\ fs[q].kind = "file"}}

C25_Layout ==
  /\ C25_Files = {<<Str.agents, Str.aMd>>, <<Str.skills, Str.x, Str.skillMd>>, <<Str.commands, Str.cMd>>, <<Str.mcpJson>>}
  /\ fs[join(DetectRoot, <<Str.mcpJson>>)].parses
  /\ "mcpServers" \in fs[join(DetectRoot, <<Str.mcpJson>>)].keys

C25_Agent == [type |-> "agent", path |-> <<Str.agents, Str.aMd>>, name |-> Str.a]
C25_Skill == [type |-> "skill", path |-> <<Str.skills, Str.x, Str.skillMd>>, name |-> Str.x]
C25_Command == [type |-> "command", path |-> <<Str.commands, Str.cMd>>, name |-> Str.c]
C25_Mcp == [type |-> "mcp", path |-> <<Str.mcpJson>>, name |-> Str.mcp]

C25_DetectsOneOfEachKind ==
  C25_Layout =>
    LET result == detectAssets(fs, DetectRoot)
    IN /\ result.agents = <<C25_Agent>>
       /\ result.skills = <<C25_Skill>>
       /\ result.commands = <<C25_Command>>
       /\ result.mcp = <<C25_Mcp>>
       /\ flattenAssets(result) = <<C25_Agent, C25_Skill, C25_Command, C25_Mcp>>

(***************************************************************************)
(* C26: diagnose puts every agent, skill or command Selection in exactly   *)
(* one of healthy and broken and no mcp Selection in either; a Selection   *)
(* is broken_symlink when nothing is at its link path or what is there is  *)
(* not a symlink, otherwise missing_source when its Source is not          *)
(* registered or its asset does not exist in the source directory,         *)
(* otherwise healthy.                                                       *)
(***************************************************************************)
C26_Expected(s) ==
  LET found == getRepository(repositories, s.repoAlias)
  IN IF s.linkedPath \notin DOMAIN fs \/ fs[s.linkedPath].kind # "symlink"
       THEN "broken_symlink"
     ELSE IF found = <<>> \/ ~existsSync(fs, join(found[1].localPath, s.assetPath))
       THEN "missing_source"
     ELSE "healthy"

C26_Count(list, s) == Cardinality({i \in 1..Len(list) : list[i].selection = s})

C26_DiagnosePartitions ==
  LET d == diagnose(repositories, selections, fs)
  IN \A s \in Range(selections) :
       IF s.type = "mcp"
         THEN C26_Count(d.healthy, s) = 0 /\ C26_Count(d.broken, s) = 0
         ELSE /\ C26_Count(d.healthy, s) + C26_Count(d.broken, s) = 1
              /\ C26_Count(d.healthy, s) = 1 <=> C26_Expected(s) = "healthy"
              /\ \A h \in Range(d.broken) : h.selection = s => h.issue = C26_Expected(s)
              /\ \A h \in Range(d.healthy) : h.healthy
              /\ \A h \in Range(d.broken) : ~h.healthy

(***************************************************************************)
(* C27: link succeeds whenever its preconditions hold even if a symlink    *)
(* is already at the destination path, whatever it points to (a target     *)
(* that no longer exists included): the old symlink is replaced by one     *)
(* that points at the requested asset.                                      *)
(***************************************************************************)
C27_Preconditions(alias, asset) ==
  LET found == getRepository(repositories, alias)
  IN /\ found # <<>>
     /\ asset.type # "mcp"
     /\ existsSync(fs, join(found[1].localPath, asset.path))

C27_RelinkOverSymlinkSucceeds ==
  \A alias \in Aliases, asset \in Assets :
    LET res == linkAssetResult(repositories, selections, fs, alias, asset)
        targetPath == linkTargetPath(alias, asset)
        found == getRepository(repositories, alias)
    IN (C27_Preconditions(alias, asset) /\ isSymbolicLink(fs, targetPath))
         => /\ res.status = "ok"
            /\ isSymbolicLink(res.fs, targetPath)
            /\ res.fs[targetPath].target = join(found[1].localPath, asset.path)

(***************************************************************************)
(* C28: a link or unlink call that fails leaves the Selections and the     *)
(* filesystem as they were before the call: no symlink of a failed link    *)
(* without its Selection, no Selection removed by a failed unlink.         *)
(***************************************************************************)
C28_FailedLinkIsAtomic ==
  \A alias \in Aliases, asset \in Assets :
    LET res == linkAssetResult(repositories, selections, fs, alias, asset)
    IN res.status # "ok" => res.selections = selections /\ res.fs = fs

C28_FailedUnlinkIsAtomic ==
  \A alias \in Aliases, asset \in Assets :
    LET res == unlinkAssetResult(selections, fs, alias, asset.path)
    IN res.status = "UnlinkFailed" => res.selections = selections /\ res.fs = fs

C28_FailedCallChangesNothing == C28_FailedLinkIsAtomic /\ C28_FailedUnlinkIsAtomic

(***************************************************************************)
(* C29: in a batch link, batch unlink, batch stage or batch unstage a      *)
(* failure on one item does not stop the remaining items from being        *)
(* processed, and there is an outcome for every item of the batch.         *)
(***************************************************************************)
C29_BatchLink ==
  \A alias \in Aliases, selectedAssets \in AssetLists :
    LET res == useAssetsResult(repositories, selections, fs, alias, selectedAssets)
    IN getRepository(repositories, alias) # <<>>
         => /\ Len(res.results) = Len(selectedAssets)
            /\ \A i \in 1..Len(selectedAssets) : res.results[i].path = selectedAssets[i].path

C29_BatchUnlink ==
  LET res == unuseAllResult(selections, stagedMcp, fs)
  IN /\ res.attempted = Len(res.linkedAssets)
     /\ res.unstaged = Len(stagedMcp)

C29_BatchStage ==
  \A alias \in Aliases, names \in NameLists :
    /\ \A n \in Range(names) :
         \E e \in Range(stageAll(stagedMcp, alias, McpBundle.path, names)) :
           e.repoAlias = alias /\ e.assetPath = McpBundle.path /\ e.serverName = n
    /\ \A n \in Range(names) :
         \A e \in Range(unstageAll(stagedMcp, alias, McpBundle.path, names)) :
           ~(e.repoAlias = alias /\ e.assetPath = McpBundle.path /\ e.serverName = n)

C29_BatchProcessesEveryItem == C29_BatchLink /\ C29_BatchUnlink /\ C29_BatchStage

(***************************************************************************)
(* C30: unlink of a skill Selection removes the skill's directory only     *)
(* when nothing else is in it once the symlink is gone; a directory that   *)
(* holds other entries stays, with those entries as they were, and unlink  *)
(* still succeeds.                                                          *)
(***************************************************************************)
C30_OtherEntries(s) ==
  {p \in DOMAIN fs : /\ IsPrefix(dirname(s.linkedPath), p)
                     /\ p # dirname(s.linkedPath)
                     /\ p # s.linkedPath}

C30_UnlinkKeepsOtherEntries ==
  \A s \in Range(selections) :
    LET res == unlinkAssetResult(selections, fs, s.repoAlias, s.assetPath)
    IN (s.type = "skill" /\ C30_OtherEntries(s) # {})
         => /\ res.status = "true"
            /\ dirname(s.linkedPath) \in DOMAIN res.fs
            /\ \A p \in C30_OtherEntries(s) : p \in DOMAIN res.fs /\ res.fs[p] = fs[p]

(***************************************************************************)
(* C31: after a successful sync the mcpServers map of the output file is   *)
(* the merged config of the entries staged when sync was called; what the  *)
(* file held before and is not in that merged config is gone.              *)
(***************************************************************************)
C31_Before ==
  IF getMcpConfigPath \in DOMAIN fs THEN fs[getMcpConfigPath].servers ELSE {}

C31_SyncOverwritesOutput ==
  LET res == syncMcpResult(repositories, stagedMcp, fs, TRUE)
      merged == buildMcpConfig(repositories, stagedMcp, fs)
      after == res.fs[getMcpConfigPath]
  IN /\ res.status = "ok"
     /\ after.kind = "file" /\ after.parses
     /\ after.servers = merged
     /\ \A e \in C31_Before \ merged : e \notin after.servers

(* the output file of an earlier sync holds an entry that the entries      *)
(* staged now do not merge to, and they merge to something                 *)
C31_Witness ==
  /\ C31_Before \ buildMcpConfig(repositories, stagedMcp, fs) # {}
  /\ buildMcpConfig(repositories, stagedMcp, fs) # {}

(***************************************************************************)
(* C32: buildMcpConfig is a function of the registry and the bundle files: *)
(* a step that changes neither leaves its result as it was; and when       *)
(* several Staged Entries that resolve have one server name, the value     *)
(* kept is the one of the entry latest in the staged list.                 *)
(***************************************************************************)
C32_Bundles(f) ==
  {<<p, f[p]>> : p \in {q \in DOMAIN f : IsPrefix(getReposDir, q)}}

C32_Resolves(i) ==
  LET e == stagedMcp[i]
      found == getRepository(repositories, e.repoAlias)
      p == join(found[1].localPath, e.assetPath)
  IN /\ found # <<>>
     /\ existsSync(fs, p)
     /\ fs[p].parses
     /\ \E x \in fs[p].servers : x[1] = e.serverName

C32_Value(i) ==
  LET e == stagedMcp[i]
      p == join(getRepository(repositories, e.repoAlias)[1].localPath, e.assetPath)
  IN CHOOSE x \in fs[p].servers : x[1] = e.serverName

C32_LastStagedWins ==
  \A i, j \in 1..Len(stagedMcp) :
    (/\ i < j
     /\ C32_Resolves(i) /\ C32_Resolves(j)
     /\ stagedMcp[i].serverName = stagedMcp[j].serverName
     /\ \A k \in (j + 1)..Len(stagedMcp) :
          C32_Resolves(k) => stagedMcp[k].serverName # stagedMcp[j].serverName)
      => /\ C32_Value(j) \in buildMcpConfig(repositories, stagedMcp, fs)
         /\ C32_Value(i) # C32_Value(j)
              => C32_Value(i) \notin buildMcpConfig(repositories, stagedMcp, fs)

C32_SameStoredStateSameResult ==
  (/\ repositories' = repositories
   /\ stagedMcp' = stagedMcp
   /\ C32_Bundles(fs') = C32_Bundles(fs))
    => buildMcpConfig(repositories', stagedMcp', fs') = buildMcpConfig(repositories, stagedMcp, fs)

C32_MergeIsDeterministic == [][C32_SameStoredStateSameResult]_vars /\ []C32_LastStagedWins

(* two resolving Staged Entries of different Sources name one server with  *)
(* different values                                                        *)
C32_Witness ==
  \E i, j \in 1..Len(stagedMcp) :
    /\ i < j
    /\ C32_Resolves(i) /\ C32_Resolves(j)
    /\ stagedMcp[i].serverName = stagedMcp[j].serverName
    /\ C32_Value(i) # C32_Value(j)

(***************************************************************************)
(* C33: when a load migrates legacy aliases, every migrated Source gets    *)
(* an alias that differs from the alias of every other Source of the       *)
(* resulting registry, Sources migrated in the same load included; a       *)
(* collision is resolved by a numeric suffix that starts at 2.             *)
(***************************************************************************)
C33_Suffixed(alias, owner, repo) ==
  \/ alias = generateNewAlias(owner, repo)
  \/ \E n \in 2..(Len(repositories) + 1) :
       alias = generateNewAlias(owner, repo) \o numberToString(n)

C33_MigratedAliasesAreUnique ==
  \A renameFails \in SUBSET (1..Len(repositories)) :
    LET res == loadConfigResult(Config, fs, renameFails).config.repositories
    IN \A i \in 1..Len(repositories) :
         C20_Legacy(i) =>
           /\ C33_Suffixed(res[i].alias, repositories[i].owner, repositories[i].repo)
           /\ \A j \in 1..Len(res) : j # i => res[j].alias # res[i].alias

(***************************************************************************)
(* C34: legacy alias migration is one-time.  After a load that migrated    *)
(* the store, a second load of what the first one persisted changes no     *)
(* alias, no Selection, no Staged Entry and no directory, and returns the  *)
(* registry the first load returned.                                       *)
(***************************************************************************)
C34_SecondLoadIsIdle(first) ==
  \A renameFails \in SUBSET (1..Len(repositories)) :
    LET second == loadConfigResult(first.persisted, first.fs, renameFails)
    IN /\ second.config = first.config
       /\ second.persisted = first.persisted
       /\ second.fs = first.fs

C34_MigrationIsOneTime ==
  \A renameFails \in SUBSET (1..Len(repositories)) :
    (\E i \in 1..Len(repositories) : C20_Legacy(i))
      => C34_SecondLoadIsIdle(loadConfigResult(Config, fs, renameFails))

(* a legacy store whose load migrates a Source that has a Selection and a  *)
(* Staged Entry                                                            *)
C34_Witness ==
  \E i \in 1..Len(repositories) :
    /\ C20_Legacy(i)
    /\ \E x \in Range(selections) : x.repoAlias = repositories[i].alias
    /\ \E x \in Range(stagedMcp) : x.repoAlias = repositories[i].alias
    /\ \E renameFails \in SUBSET (1..Len(repositories)) :
         loadConfigResult(Config, fs, renameFails).fs # fs

(***************************************************************************)
(* C35: registering a remote source whose owner and name equal, without    *)
(* case, those of a registered Source fails as already registered;         *)
(* registering a text that is no GitHub identity fails as invalid; every   *)
(* failed registration leaves the registry and the source cache directory  *)
(* as they were.                                                           *)
(***************************************************************************)
C35_Unparsable == {Str.o, Str.o \o <<"/">> \o Str.r \o <<"/">> \o Str.q}

C35_Registered(id) ==
  \E r \in Range(repositories) :
    /\ r.registryType = "github"
    /\ toLowerCase(r.owner) = toLowerCase(id[1])
    /\ toLowerCase(r.repo) = toLowerCase(id[2])

C35_Cache(f) ==
  {<<p, f[p]>> : p \in {q \in DOMAIN f : IsPrefix(getReposDir, q)}}

C35_Unchanged(res) ==
  /\ res.repositories = repositories
  /\ C35_Cache(res.fs) = C35_Cache(fs)

C36_Has(cfg, inv) ==
  IF inv.op = "addSelection"
    THEN \E x \in Range(cfg.selections) : x.assetPath = inv.asset.path
    ELSE \E x \in Range(cfg.stagedMcp) : x.serverName = inv.serverName

C36_BothDone(p, q) ==
  /\ p # q
  /\ invocations[p].pc = "done" /\ invocations[q].pc = "done"
  /\ ~(invocations[p].op = invocations[q].op
        /\ invocations[p].asset = invocations[q].asset
        /\ invocations[p].serverName = invocations[q].serverName)

(* q loaded the store after p had saved it *)
C36_OneAfterTheOther(p, q) ==
  /\ C36_BothDone(p, q)
  /\ C36_Has(invocations[q].config, invocations[p])

(* both loaded the store before either saved *)
C36_BothLoadedFirst(p, q) ==
  /\ C36_BothDone(p, q)
  /\ ~C36_Has(invocations[q].config, invocations[p])
  /\ ~C36_Has(invocations[p].config, invocations[q])

C36_WholeDocumentSave ==
  \A p, q \in Invocations :
    /\ C36_OneAfterTheOther(p, q)
         => C36_Has(Config, invocations[p]) /\ C36_Has(Config, invocations[q])
    /\ C36_BothLoadedFirst(p, q)
         => ~(C36_Has(Config, invocations[p]) /\ C36_Has(Config, invocations[q]))

(* the lost update: both invocations have saved, one added a Selection and *)
(* the other staged an entry, and the store has only one of the two        *)
C36_Witness ==
  \E p, q \in Invocations :
    /\ C36_BothLoadedFirst(p, q)
    /\ invocations[p].op = "addSelection" /\ invocations[q].op = "stageMcpServer"
    /\ ~C36_Has(Config, invocations[p])
    /\ C36_Has(Config, invocations[q])

(***************************************************************************)
(* C37: distinct Selections have distinct link paths: link never gives     *)
(* the Selection of one (alias, asset path) a link path that is recorded   *)
(* for a Selection of another alias or another asset path.                 *)
(***************************************************************************)
C37_LinkPathsAreDistinct ==
  \A i, j \in 1..Len(selections) :
    (selections[i].repoAlias # selections[j].repoAlias
       \/ selections[i].assetPath # selections[j].assetPath)
      => selections[i].linkedPath # selections[j].linkedPath

(***************************************************************************)
(* C38: unlink of one Selection leaves every other Selection untouched:    *)
(* its record stays in the registry, its symlink stays on disk, and when   *)
(* diagnose classified it as healthy before the unlink it is classified    *)
(* as healthy after it.                                                    *)
(***************************************************************************)
C38_Untouched(res, other) ==
  /\ other \in Range(res.selections)
  /\ isSymbolicLink(fs, other.linkedPath)
       => /\ isSymbolicLink(res.fs, other.linkedPath)
          /\ res.fs[other.linkedPath] = fs[other.linkedPath]
  /\ linkIssue(repositories, fs, other) = "healthy"
       => linkIssue(repositories, res.fs, other) = "healthy"

C38_UnlinkLeavesOtherSelections ==
  \A s \in Range(selections) :
    \A other \in Range(selections) :
      (other.repoAlias # s.repoAlias \/ other.assetPath # s.assetPath)
        => C38_Untouched(unlinkAssetResult(selections, fs, s.repoAlias, s.assetPath), other)

(***************************************************************************)
(* C39: cure and unlink delete from the link target tree only what link    *)
(* created: when the entry at a Selection's link path is a regular file or *)
(* a directory and no symlink, that entry is left in place.                *)
(***************************************************************************)
C39_NotALink(s) ==
  /\ s.linkedPath \in DOMAIN fs
  /\ fs[s.linkedPath].kind \in {"file", "dir"}

C39_LeftInPlace(f, s) ==
  /\ s.linkedPath \in DOMAIN f
  /\ f[s.linkedPath] = fs[s.linkedPath]

C39_UnlinkLeavesForeignEntry ==
  \A s \in Range(selections) :
    C39_NotALink(s)
      => C39_LeftInPlace(unlinkAssetResult(selections, fs, s.repoAlias, s.assetPath).fs, s)

C39_CureLeavesForeignEntry ==
  \A s \in Range(selections) :
    C39_NotALink(s) => C39_LeftInPlace(cureResult(repositories, selections, fs).fs, s)

C39_OnlyLinksAreDeleted ==
  C39_UnlinkLeavesForeignEntry /\ C39_CureLeavesForeignEntry

(***************************************************************************)
(* C40: a Selection that is healthy before a load that migrates legacy     *)
(* aliases is healthy after it: its rewritten link path names an existing  *)
(* symlink, and that symlink resolves to the asset inside the Source's     *)
(* directory at the local path the registry records after the load.        *)
(***************************************************************************)
C40_StillHealthy(res, j) ==
  LET selection == res.config.selections[j]
      found == getRepository(res.config.repositories, selection.repoAlias)
  IN /\ linkIssue(res.config.repositories, res.fs, selection) = "healthy"
     /\ isSymbolicLink(res.fs, selection.linkedPath)
     /\ found # <<>>
     /\ res.fs[selection.linkedPath].target = join(found[1].localPath, selection.assetPath)
     /\ existsSync(res.fs, res.fs[selection.linkedPath].target)

C40_MigrationKeepsSelectionsHealthy ==
  \A renameFails \in SUBSET (1..Len(repositories)) :
    LET parsed == [j \in 1..Len(repositories) |-> withRegistryType(repositories[j])]
        res == loadConfigResult(Config, fs, renameFails)
    IN \A j \in 1..Len(selections) :
         (/\ \E i \in 1..Len(repositories) : C20_Legacy(i)
          /\ linkIssue(parsed, fs, selections[j]) = "healthy")
           => C40_StillHealthy(res, j)

====
